---- MODULE Spec2Model ----
(***************************************************************************)
(* A model of expression/builtin_cast.go: the seven castAsXXFunctionClass  *)
(* dispatchers, the 49 builtinCastXXAsYYSig routines, BuildCastFunction    *)
(* and the statement context the routines report to.                       *)
(*                                                                         *)
(* Values.  An int64 is an integer of IntBits bits (two's complement; an   *)
(* unsigned value is kept as its int64 bit pattern, as the Go code does).  *)
(* A string is a sequence of one-character strings.  A decimal is a sign   *)
(* and two digit sequences (integer part, fraction part), as MyDecimal     *)
(* is.  A float64 is modelled by the finite decimal it prints as.          *)
(* A duration counts tenths of a second.  Warnings and errors are kept by  *)
(* their error code, without the arguments of the message.                 *)
(***************************************************************************)
EXTENDS Integers, Sequences, FiniteSets, TLC

\* ------------------------------------------------------------------ bounds
\* Width of the modelled int64/uint64.
IntBits == 24
\* The integer rows evaluated are -SmallInt..SmallInt and the edge values.
SmallInt == 4
\* Rows of one statement are evaluated while it holds fewer warnings.
MaxWarnings == 2

\* --------------------------------------------------------------- integers
TwoToBits == 2 ^ IntBits
MaxInt64 == (2 ^ (IntBits - 1)) - 1
MinInt64 == -(2 ^ (IntBits - 1))
MaxUint64 == (2 ^ IntBits) - 1

\* int64(u) of a uint64 u, and uint64(i) of an int64 i.
Int64OfUint64(u) == IF u > MaxInt64 THEN u - TwoToBits ELSE u
Uint64OfInt64(i) == IF i < 0 THEN i + TwoToBits ELSE i

Min(a, b) == IF a < b THEN a ELSE b
Max(a, b) == IF a > b THEN a ELSE b

\* ---------------------------------------------------------------- strings
DigitChars == <<"0", "1", "2", "3", "4", "5", "6", "7", "8", "9">>
IsDigit(c) == \E i \in 1..10 : DigitChars[i] = c
CharToDigit(c) == (CHOOSE i \in 1..10 : DigitChars[i] = c) - 1
DigitToChar(d) == DigitChars[d + 1]

DigitsToStr(ds) == [i \in 1..Len(ds) |-> DigitToChar(ds[i])]
StrToDigits(s) == [i \in 1..Len(s) |-> CharToDigit(s[i])]
AllDigits(s) == \A i \in 1..Len(s) : IsDigit(s[i])
AllZero(ds) == \A i \in 1..Len(ds) : ds[i] = 0

RECURSIVE NatDigits(_)
NatDigits(n) == IF n < 10 THEN <<n>> ELSE NatDigits(n \div 10) \o <<n % 10>>

\* strconv.FormatUint(u, 10) and strconv.FormatInt(i, 10).
FormatUint(u) == DigitsToStr(NatDigits(u))
FormatInt(i) == IF i < 0 THEN <<"-">> \o FormatUint(-i) ELSE FormatUint(i)

\* The value of a digit sequence, saturated at cap (cap marks "out of range").
RECURSIVE DigitsVal(_, _)
DigitsVal(ds, cap) ==
    IF ds = <<>> THEN 0
    ELSE LET hi == DigitsVal(SubSeq(ds, 1, Len(ds) - 1), cap)
             d == ds[Len(ds)]
         IN IF hi > (cap - d) \div 10 THEN cap ELSE Min(cap, hi * 10 + d)

RECURSIVE StripZeros(_)
StripZeros(ds) == IF ds # <<>> /\ ds[1] = 0 THEN StripZeros(Tail(ds)) ELSE ds

\* Length of the longest prefix of s made of digits.
RECURSIVE DigitPrefixLen(_)
DigitPrefixLen(s) == IF s # <<>> /\ IsDigit(s[1]) THEN 1 + DigitPrefixLen(Tail(s)) ELSE 0

IsSpace(c) == c = " "
RECURSIVE TrimLeft(_)
TrimLeft(s) == IF s # <<>> /\ IsSpace(s[1]) THEN TrimLeft(Tail(s)) ELSE s
RECURSIVE TrimRight(_)
TrimRight(s) ==
    IF s # <<>> /\ IsSpace(s[Len(s)]) THEN TrimRight(SubSeq(s, 1, Len(s) - 1)) ELSE s
\* strings.TrimSpace
TrimSpace(s) == TrimRight(TrimLeft(s))

\* ---------------------------------------------------------------- errors
nil == "nil"

\* Package mysql: the type tags and the flags of a FieldType.
mysql ==
    [TypeLonglong |-> "TypeLonglong",
     TypeDouble |-> "TypeDouble",
     TypeNewDecimal |-> "TypeNewDecimal",
     TypeVarString |-> "TypeVarString",
     TypeDate |-> "TypeDate",
     TypeDatetime |-> "TypeDatetime",
     TypeTimestamp |-> "TypeTimestamp",
     TypeDuration |-> "TypeDuration",
     TypeJSON |-> "TypeJSON",
     TypeEnum |-> "TypeEnum",
     TypeSet |-> "TypeSet",
     TypeBit |-> "TypeBit",
     UnsignedFlag |-> "UnsignedFlag",
     IsBooleanFlag |-> "IsBooleanFlag",
     ParseToJSONFlag |-> "ParseToJSONFlag",
     BinaryFlag |-> "BinaryFlag",
     MaxRealWidth |-> 23,
     MaxDateWidth |-> 10,
     MaxDatetimeWidthNoFsp |-> 19,
     MaxDurationWidthNoFsp |-> 10]

\* Package types: the EvalType classes, the rounding modes of MyDecimal and
\* the error codes of the conversions.
types ==
    [ETInt |-> "ETInt",
     ETReal |-> "ETReal",
     ETDecimal |-> "ETDecimal",
     ETString |-> "ETString",
     ETDatetime |-> "ETDatetime",
     ETTimestamp |-> "ETTimestamp",
     ETDuration |-> "ETDuration",
     ETJson |-> "ETJson",
     ModeHalfEven |-> "ModeHalfEven",
     ModeTruncate |-> "ModeTruncate",
     ErrOverflow |-> "ErrOverflow",
     ErrTruncated |-> "ErrTruncated",
     ErrTruncatedWrongVal |-> "ErrTruncatedWrongVal",
     ErrCastNegIntAsUnsigned |-> "ErrCastNegIntAsUnsigned",
     ErrCastAsSignedOverflow |-> "ErrCastAsSignedOverflow",
     ErrInvalidTimeFormat |-> "ErrInvalidTimeFormat",
     ErrBadNumber |-> "ErrBadNumber"]

\* Package types/json: the type codes of a BinaryJSON, the texts of its
\* literals, and the error code of a malformed text.
json ==
    [TypeCodeLiteral |-> "TypeCodeLiteral",
     TypeCodeInt64 |-> "TypeCodeInt64",
     TypeCodeUint64 |-> "TypeCodeUint64",
     TypeCodeFloat64 |-> "TypeCodeFloat64",
     TypeCodeString |-> "TypeCodeString",
     TypeCodeObject |-> "TypeCodeObject",
     LiteralNil |-> <<"n", "u", "l", "l">>,
     LiteralTrue |-> <<"t", "r", "u", "e">>,
     LiteralFalse |-> <<"f", "a", "l", "s", "e">>,
     ErrInvalidJSONText |-> "ErrInvalidJSONText"]

\* The error an argument's own evaluation fails with.
ErrArg == "ErrArg"

\* ------------------------------------------------------- statement context
\* sessionctx/stmtctx.StatementContext, as far as the cast routines use it:
\* the lenient/strict flag InSelectStmt, the policy of the diagnostics sink and
\* the warnings appended so far.
AppendWarning(c, warn) == [c EXCEPT !.warnings = Append(@, warn)]

\* HandleOverflow(err, warnErr): a warning under OverflowAsWarning, else err.
HandleOverflow(c, err, warnErr) ==
    IF err = nil THEN [err |-> nil, sc |-> c]
    ELSE IF c.OverflowAsWarning THEN [err |-> nil, sc |-> AppendWarning(c, warnErr)]
    ELSE [err |-> err, sc |-> c]

\* A sink that reads what earlier rows left in it: only the first truncation
\* of a statement is downgraded.
HandleTruncate_FirstOnly(c, err) ==
    IF err = nil THEN [err |-> nil, sc |-> c]
    ELSE IF c.IgnoreTruncate THEN [err |-> nil, sc |-> c]
    ELSE IF c.TruncateAsWarning /\ c.warnings = <<>> THEN [err |-> nil, sc |-> AppendWarning(c, err)]
    ELSE [err |-> err, sc |-> c]

\* HandleTruncate(err): dropped under IgnoreTruncate, a warning under
\* TruncateAsWarning, else err.
HandleTruncate(c, err) ==
    IF err = nil THEN [err |-> nil, sc |-> c]
    ELSE IF c.IgnoreTruncate THEN [err |-> nil, sc |-> c]
    ELSE IF c.TruncateAsWarning THEN [err |-> nil, sc |-> AppendWarning(c, err)]
    ELSE [err |-> err, sc |-> c]

\* The policies a statement runs under.  A SELECT is the lenient context: it
\* sets InSelectStmt and downgrades overflow to a warning.
StmtPolicies ==
    { [InSelectStmt |-> l, OverflowAsWarning |-> l, IgnoreTruncate |-> i,
       TruncateAsWarning |-> w, warnings |-> <<>>] :
        l \in BOOLEAN, i \in BOOLEAN, w \in BOOLEAN } \
    { p \in [InSelectStmt : BOOLEAN, OverflowAsWarning : BOOLEAN, IgnoreTruncate : BOOLEAN,
             TruncateAsWarning : BOOLEAN, warnings : {<<>>}] :
        p.IgnoreTruncate /\ p.TruncateAsWarning }

\* ------------------------------------------------------------ field types
\* The flags of a FieldType.
HasUnsignedFlag(flag) == mysql.UnsignedFlag \in flag
HasIsBooleanFlag(flag) == mysql.IsBooleanFlag \in flag
HasParseToJSONFlag(flag) == mysql.ParseToJSONFlag \in flag

UnspecifiedLength == -1
DefaultFsp == 0
MaxFsp == 6

\* FieldType.EvalType()
EvalType(ft) ==
    CASE ft.Tp \in {mysql.TypeLonglong, mysql.TypeBit} -> types.ETInt
      [] ft.Tp = mysql.TypeDouble -> types.ETReal
      [] ft.Tp = mysql.TypeNewDecimal -> types.ETDecimal
      [] ft.Tp \in {mysql.TypeDate, mysql.TypeDatetime} -> types.ETDatetime
      [] ft.Tp = mysql.TypeTimestamp -> types.ETTimestamp
      [] ft.Tp = mysql.TypeDuration -> types.ETDuration
      [] ft.Tp = mysql.TypeJSON -> types.ETJson
      [] OTHER -> types.ETString

\* FieldType.Hybrid()
Hybrid(ft) == ft.Tp \in {mysql.TypeEnum, mysql.TypeBit, mysql.TypeSet}

\* IsBinaryLiteral(expr): expr is a constant holding a binary literal.
IsBinaryLiteral(expr) == expr.BinaryLiteral

\* --------------------------------------------------------------- decimals
\* types.MyDecimal: [neg, int, frac], int without leading zeros.
Dec(neg, int, frac) == [neg |-> neg, int |-> StripZeros(int), frac |-> frac]
DecIsZero(d) == AllZero(d.int) /\ AllZero(d.frac)
DecIsNegative(d) == d.neg
NewDecFromInt(i) == Dec(i < 0, NatDigits(IF i < 0 THEN -i ELSE i), <<>>)
NewDecFromUint(u) == Dec(FALSE, NatDigits(u), <<>>)

\* ds + 1, as a digit sequence.
RECURSIVE IncDigits(_)
IncDigits(ds) ==
    IF ds = <<>> THEN <<1>>
    ELSE IF ds[Len(ds)] < 9 THEN [ds EXCEPT ![Len(ds)] = @ + 1]
    ELSE IncDigits(SubSeq(ds, 1, Len(ds) - 1)) \o <<0>>

PadZeros(ds, n) == ds \o [i \in 1..(n - Len(ds)) |-> 0]

\* MyDecimal.Round(to, frac, mode): the decimal with exactly frac fraction
\* digits; ModeHalfEven rounds a tie to the even neighbour, ModeTruncate cuts.
DecRound(d, frac, mode) ==
    IF Len(d.frac) <= frac THEN [d EXCEPT !.frac = PadZeros(d.frac, frac)]
    ELSE LET keep == d.int \o SubSeq(d.frac, 1, frac)
             nd == d.frac[frac + 1]
             rest == SubSeq(d.frac, frac + 2, Len(d.frac))
             lastOdd == keep # <<>> /\ keep[Len(keep)] % 2 = 1
             up == /\ mode = types.ModeHalfEven
                   /\ \/ nd > 5
                      \/ nd = 5 /\ (~AllZero(rest) \/ lastOdd)
             rounded(kept) ==
                 LET n == Len(kept) - frac
                     r == [neg |-> d.neg, int |-> StripZeros(SubSeq(kept, 1, n)),
                           frac |-> SubSeq(kept, n + 1, Len(kept))]
                 IN IF DecIsZero(r) THEN [r EXCEPT !.neg = FALSE] ELSE r
         IN rounded(IF up THEN IncDigits(PadZeros(<<>>, Max(0, 1 - Len(keep))) \o keep)
                    ELSE keep)

\* MyDecimal.ToInt(): the integer part as an int64; out of range saturates
\* with ErrOverflow, a dropped fraction gives ErrTruncated.
DecToInt(d) ==
    LET m == DigitsVal(d.int, TwoToBits)
    IN IF ~d.neg /\ m > MaxInt64 THEN [val |-> MaxInt64, err |-> types.ErrOverflow]
       ELSE IF d.neg /\ m > -MinInt64 THEN [val |-> MinInt64, err |-> types.ErrOverflow]
       ELSE [val |-> IF d.neg THEN -m ELSE m,
             err |-> IF AllZero(d.frac) THEN nil ELSE types.ErrTruncated]

\* MyDecimal.ToUint(): a negative decimal and one above MaxUint64 overflow.
DecToUint(d) ==
    LET m == DigitsVal(d.int, TwoToBits)
    IN IF d.neg /\ ~DecIsZero(d) THEN [val |-> 0, err |-> types.ErrOverflow]
       ELSE IF m > MaxUint64 THEN [val |-> MaxUint64, err |-> types.ErrOverflow]
       ELSE [val |-> m, err |-> IF AllZero(d.frac) THEN nil ELSE types.ErrTruncated]

\* MyDecimal.ToString()
DecToString(d) ==
    (IF d.neg THEN <<"-">> ELSE <<>>)
    \o (IF d.int = <<>> THEN <<"0">> ELSE DigitsToStr(d.int))
    \o (IF d.frac = <<>> THEN <<>> ELSE <<".">> \o DigitsToStr(d.frac))

\* The longest prefix of s that is a decimal literal [+-]digits[.digits]:
\* [dec, ok (some digit was read), rest (what follows the literal)].
NumberPrefix(s) ==
    LET signed == s # <<>> /\ s[1] \in {"-", "+"}
        literal(intDs, fracDs, rest, ok) ==
            LET d == Dec(signed /\ s[1] = "-", intDs, fracDs)
            IN [dec |-> IF DecIsZero(d) THEN [d EXCEPT !.neg = FALSE] ELSE d,
                neg |-> signed /\ s[1] = "-",
                ok |-> ok,
                rest |-> rest]
        fraction(body, ni, afterInt) ==
            LET dotted == afterInt # <<>> /\ afterInt[1] = "."
                nf == IF dotted THEN DigitPrefixLen(Tail(afterInt)) ELSE 0
                hasFrac == dotted /\ (nf > 0 \/ ni > 0)
            IN literal(StrToDigits(SubSeq(body, 1, ni)),
                       IF hasFrac THEN StrToDigits(SubSeq(afterInt, 2, nf + 1)) ELSE <<>>,
                       IF hasFrac THEN SubSeq(afterInt, nf + 2, Len(afterInt)) ELSE afterInt,
                       ni + nf > 0)
        digits(body, ni) == fraction(body, ni, SubSeq(body, ni + 1, Len(body)))
        unsignedPart(body) == digits(body, DigitPrefixLen(body))
    IN unsignedPart(IF signed THEN Tail(s) ELSE s)

\* MyDecimal.FromString(str): the literal at the start of the trimmed string;
\* ErrBadNumber when there is none, ErrTruncated when text follows it.
DecFromString(s) ==
    LET literal(p) ==
            IF ~p.ok THEN [val |-> Dec(FALSE, <<>>, <<>>), err |-> types.ErrBadNumber]
            ELSE [val |-> p.dec, err |-> IF p.rest = <<>> THEN nil ELSE types.ErrTruncated]
    IN literal(NumberPrefix(TrimSpace(s)))

\* types.ProduceDecWithSpecifiedTp(dec, tp, sc): the decimal brought to the
\* target's Flen and Decimal.  More integer digits than Flen - Decimal give the
\* largest value of the type and an overflow; a fraction of another length is
\* rounded to Decimal digits, and dropped digits are reported as a truncation.
MaxDec(neg, flen, decimal) ==
    [neg |-> neg, int |-> [i \in 1..(flen - decimal) |-> 9], frac |-> [i \in 1..decimal |-> 9]]

ProduceDecWithSpecifiedTp(d, tp, c) ==
    IF tp.Flen = UnspecifiedLength \/ tp.Decimal = UnspecifiedLength
    THEN [val |-> d, err |-> nil, sc |-> c]
    ELSE IF ~DecIsZero(d) /\ Len(d.int) > tp.Flen - tp.Decimal
    THEN LET h == HandleOverflow(c, types.ErrOverflow, types.ErrOverflow)
         IN [val |-> MaxDec(d.neg, tp.Flen, tp.Decimal), err |-> h.err, sc |-> h.sc]
    ELSE LET dropped == Len(d.frac) > tp.Decimal
                        /\ ~AllZero(SubSeq(d.frac, tp.Decimal + 1, Len(d.frac)))
             h == HandleTruncate(c, IF dropped THEN types.ErrTruncated ELSE nil)
         IN [val |-> DecRound(d, tp.Decimal, types.ModeHalfEven), err |-> h.err, sc |-> h.sc]

\* -------------------------------------------------------------- float64
\* A float64 is modelled by the decimal it prints as.
\* strconv.FormatFloat(f, 'f', -1, 64): the shortest text, no trailing zeros.
RECURSIVE StripTrailingZeros(_)
StripTrailingZeros(ds) ==
    IF ds # <<>> /\ ds[Len(ds)] = 0 THEN StripTrailingZeros(SubSeq(ds, 1, Len(ds) - 1))
    ELSE ds
Float(d) == [d EXCEPT !.frac = StripTrailingZeros(@)]
FormatFloat(f) == DecToString(Float(f))
\* float64(i) of an int64, float64(u) of a uint64.
FloatOfInt(i) == NewDecFromInt(i)
FloatOfUint(u) == NewDecFromUint(u)
\* MyDecimal.ToFloat64() and MyDecimal.FromFloat64(f).
DecToFloat64(d) == Float(d)
DecFromFloat64(f) == Float(f)

\* math.Round-like rounding of a float to the nearest integer, ties away from zero.
FloatRoundDigits(f) ==
    IF f.frac # <<>> /\ f.frac[1] >= 5 THEN IncDigits(f.int) ELSE f.int

\* types.ConvertFloatToInt(f, lower, upper, tp): rounds, saturates at the
\* bounds with ErrOverflow.
ConvertFloatToInt(f, lower, upper) ==
    LET m == DigitsVal(FloatRoundDigits(f), TwoToBits)
    IN IF f.neg /\ m > -lower THEN [val |-> lower, err |-> types.ErrOverflow]
       ELSE IF ~f.neg /\ m > upper THEN [val |-> upper, err |-> types.ErrOverflow]
       ELSE [val |-> IF f.neg THEN -m ELSE m, err |-> nil]

\* types.ConvertFloatToUint(f, upper, tp): a negative value saturates at 0.
ConvertFloatToUint(f, upper) ==
    LET m == DigitsVal(FloatRoundDigits(f), TwoToBits)
    IN IF f.neg /\ m > 0 THEN [val |-> 0, err |-> types.ErrOverflow]
       ELSE IF m > upper THEN [val |-> upper, err |-> types.ErrOverflow]
       ELSE [val |-> m, err |-> nil]

\* types.ConvertIntToUint(i, upper, tp): the int64 read as unsigned.
ConvertIntToUint(i, upper) ==
    IF Uint64OfInt64(i) > upper THEN [val |-> upper, err |-> types.ErrOverflow]
    ELSE [val |-> Uint64OfInt64(i), err |-> nil]

\* types.StrToFloat(sc, str): the literal at the start of the trimmed string;
\* text that follows it is reported as a truncation.
StrToFloat(c, s) ==
    LET literal(p) ==
            LET h == HandleTruncate(c, IF p.ok /\ p.rest = <<>> THEN nil ELSE types.ErrTruncated)
            IN [val |-> Float(p.dec), err |-> h.err, sc |-> h.sc]
    IN literal(NumberPrefix(TrimSpace(s)))

\* types.ProduceFloatWithSpecifiedTp(f, tp, sc): rounds to tp.Decimal when set.
ProduceFloatWithSpecifiedTp(f, tp, c) ==
    IF tp.Decimal = UnspecifiedLength THEN [val |-> f, err |-> nil, sc |-> c]
    ELSE [val |-> Float(DecRound(f, tp.Decimal, types.ModeHalfEven)), err |-> nil, sc |-> c]

\* ---------------------------------------------------- strings to integers
\* getValidIntPrefix + strconv: the integer literal the string starts with,
\* a fraction rounded away; other text is reported as a truncation.
IntPrefix(c, s) ==
    LET prefix(p, r) ==
            LET h == HandleTruncate(c, IF p.ok /\ p.rest = <<>> THEN nil ELSE types.ErrTruncated)
            IN [neg |-> p.neg /\ ~DecIsZero(r), digits |-> r.int, err |-> h.err, sc |-> h.sc]
        literal(p) == prefix(p, DecRound(p.dec, 0, types.ModeHalfEven))
    IN literal(NumberPrefix(TrimSpace(s)))

\* types.StrToInt(sc, str): strconv.ParseInt of the prefix; out of range gives
\* the nearest bound and ErrOverflow.
StrToInt(c, s) ==
    LET parseInt(p, m) ==
            IF ~p.neg /\ m > MaxInt64 THEN [val |-> MaxInt64, err |-> types.ErrOverflow, sc |-> p.sc]
            ELSE IF p.neg /\ m > -MinInt64
            THEN [val |-> MinInt64, err |-> types.ErrOverflow, sc |-> p.sc]
            ELSE [val |-> IF p.neg THEN -m ELSE m, err |-> p.err, sc |-> p.sc]
        prefix(p) == parseInt(p, DigitsVal(p.digits, TwoToBits))
    IN prefix(IntPrefix(c, s))

\* types.StrToUint(sc, str): strconv.ParseUint of the prefix.
StrToUint(c, s) ==
    LET parseUint(p, m) ==
            IF m > MaxUint64 THEN [val |-> MaxUint64, err |-> types.ErrOverflow, sc |-> p.sc]
            ELSE [val |-> m, err |-> p.err, sc |-> p.sc]
        prefix(p) == parseUint(p, DigitsVal(p.digits, TwoToBits))
    IN prefix(IntPrefix(c, s))

\* types.ProduceStrWithSpecifiedTp(str, tp, sc): the string cut to Flen
\* characters when Flen is set; a cut is reported as a truncation.
ProduceStrWithSpecifiedTp(s, tp, c) ==
    IF tp.Flen = UnspecifiedLength \/ Len(s) <= tp.Flen
    THEN [val |-> s, err |-> nil, sc |-> c]
    ELSE LET h == HandleTruncate(c, types.ErrTruncated)
         IN [val |-> SubSeq(s, 1, tp.Flen), err |-> h.err, sc |-> h.sc]

\* ------------------------------------------------------------------ time
\* types.Time: a date, a time of day, tenths of a second, the type tag and fsp.
FromDate(y, m, d, h, mi, sec, f) ==
    [Year |-> y, Month |-> m, Day |-> d, Hour |-> h, Minute |-> mi, Second |-> sec, Frac |-> f]
NewTime(core, tp, fsp) ==
    [Year |-> core.Year, Month |-> core.Month, Day |-> core.Day, Hour |-> core.Hour,
     Minute |-> core.Minute, Second |-> core.Second, Frac |-> core.Frac,
     Type |-> tp, Fsp |-> fsp]
ZeroCoreTime == FromDate(0, 0, 0, 0, 0, 0, 0)
ZeroTimeOf(tp) == NewTime(ZeroCoreTime, tp, DefaultFsp)
TimeIsZero(t) ==
    t.Year = 0 /\ t.Month = 0 /\ t.Day = 0 /\ t.Hour = 0 /\ t.Minute = 0
    /\ t.Second = 0 /\ t.Frac = 0
\* The clock reading of the run: the date of time.Now().
CurrentDate == [Year |-> 2023, Month |-> 6, Day |-> 15]

IsLeap(y) == (y % 4 = 0 /\ y % 100 # 0) \/ y % 400 = 0
DaysInMonth(y, m) ==
    IF m = 2 THEN (IF IsLeap(y) THEN 29 ELSE 28)
    ELSE IF m \in {4, 6, 9, 11} THEN 30 ELSE 31

NextDay(t) ==
    IF t.Day < DaysInMonth(t.Year, t.Month) THEN [t EXCEPT !.Day = @ + 1]
    ELSE IF t.Month < 12 THEN [t EXCEPT !.Day = 1, !.Month = @ + 1]
    ELSE [t EXCEPT !.Day = 1, !.Month = 1, !.Year = @ + 1]
PrevDay(t) ==
    IF t.Day > 1 THEN [t EXCEPT !.Day = @ - 1]
    ELSE IF t.Month > 1
    THEN [t EXCEPT !.Day = DaysInMonth(t.Year, t.Month - 1), !.Month = @ - 1]
    ELSE [t EXCEPT !.Day = 31, !.Month = 12, !.Year = @ - 1]
RECURSIVE AddDays(_, _)
AddDays(t, n) ==
    IF n = 0 THEN t
    ELSE IF n > 0 THEN AddDays(NextDay(t), n - 1) ELSE AddDays(PrevDay(t), n + 1)

\* One second later, carried into the minute, the hour and the date.
AddSecond(t) ==
    IF t.Second < 59 THEN [t EXCEPT !.Second = @ + 1]
    ELSE IF t.Minute < 59 THEN [t EXCEPT !.Second = 0, !.Minute = @ + 1]
    ELSE IF t.Hour < 23 THEN [t EXCEPT !.Second = 0, !.Minute = 0, !.Hour = @ + 1]
    ELSE NextDay([t EXCEPT !.Second = 0, !.Minute = 0, !.Hour = 0])

\* Time.RoundFrac(sc, fsp): the fraction rounded to fsp digits.
TimeRoundFrac(t, fsp) ==
    IF fsp > 0 \/ t.Frac = 0 THEN [val |-> [t EXCEPT !.Fsp = fsp], err |-> nil]
    ELSE IF t.Frac < 5 THEN [val |-> [t EXCEPT !.Frac = 0, !.Fsp = fsp], err |-> nil]
    ELSE [val |-> AddSecond([t EXCEPT !.Frac = 0, !.Fsp = fsp]), err |-> nil]

\* Time.check: a TIMESTAMP lies in 1970..2037, a month in 1..12, a day in its month.
TimeCheck(t) ==
    IF TimeIsZero(t) THEN nil
    ELSE IF t.Type = mysql.TypeTimestamp /\ (t.Year < 1970 \/ t.Year > 2037) THEN types.ErrInvalidTimeFormat
    ELSE IF t.Month \notin 1..12 THEN types.ErrInvalidTimeFormat
    ELSE IF t.Day \notin 1..DaysInMonth(t.Year, t.Month) THEN types.ErrInvalidTimeFormat
    ELSE IF t.Hour > 23 \/ t.Minute > 59 \/ t.Second > 59 THEN types.ErrInvalidTimeFormat
    ELSE nil

\* Time.Convert(sc, tp): the same instant under another type tag.
TimeConvert(t, tp) ==
    IF t.Type = tp \/ TimeIsZero(t) THEN [val |-> [t EXCEPT !.Type = tp], err |-> nil]
    ELSE [val |-> [t EXCEPT !.Type = tp], err |-> TimeCheck([t EXCEPT !.Type = tp])]

TwoDigits(n) == <<(n \div 10) % 10, n % 10>>
FourDigits(n) == TwoDigits(n \div 100) \o TwoDigits(n % 100)
FracDigits(f, fsp) == IF fsp > 0 THEN PadZeros(<<f>>, fsp) ELSE <<>>

\* Time.ToNumber(): YYYYMMDDhhmmss[.fraction], YYYYMMDD for a DATE.
TimeToNumber(t) ==
    IF t.Type = mysql.TypeDate
    THEN Dec(FALSE, FourDigits(t.Year) \o TwoDigits(t.Month) \o TwoDigits(t.Day), <<>>)
    ELSE Dec(FALSE, FourDigits(t.Year) \o TwoDigits(t.Month) \o TwoDigits(t.Day)
                    \o TwoDigits(t.Hour) \o TwoDigits(t.Minute) \o TwoDigits(t.Second),
             FracDigits(t.Frac, t.Fsp))

\* Time.String(): "YYYY-MM-DD hh:mm:ss[.fraction]", "YYYY-MM-DD" for a DATE.
TimeString(t) ==
    LET date == DigitsToStr(FourDigits(t.Year)) \o <<"-">> \o DigitsToStr(TwoDigits(t.Month))
                \o <<"-">> \o DigitsToStr(TwoDigits(t.Day))
        clock == DigitsToStr(TwoDigits(t.Hour)) \o <<":">> \o DigitsToStr(TwoDigits(t.Minute))
                 \o <<":">> \o DigitsToStr(TwoDigits(t.Second))
        frac == IF t.Fsp > 0 THEN <<".">> \o DigitsToStr(FracDigits(t.Frac, t.Fsp)) ELSE <<>>
    IN IF t.Type = mysql.TypeDate THEN date ELSE date \o <<" ">> \o clock \o frac

\* A group of digits of s read as a number; -1 when it is not all digits.
Num(s, i, j) ==
    IF j <= Len(s) /\ i <= j /\ AllDigits(SubSeq(s, i, j))
    THEN DigitsVal(StrToDigits(SubSeq(s, i, j)), 100000) ELSE -1
At(s, i, c) == i <= Len(s) /\ s[i] = c
AdjustYear(yy) == IF yy < 70 THEN 2000 + yy ELSE 1900 + yy

\* The date and time a literal names, before validation:
\* "YYYY-MM-DD hh:mm:ss", "YYYY-MM-DD", YYYYMMDDhhmmss, YYMMDDhhmmss, YYYYMMDD
\* or YYMMDD, each with an optional ".fraction".  ok = FALSE for other text.
ParseDatetimeCore(str) ==
    LET dot == IF \E i \in 1..Len(str) : str[i] = "."
               THEN CHOOSE i \in 1..Len(str) :
                        str[i] = "." /\ \A k \in 1..(i - 1) : str[k] # "."
               ELSE Len(str) + 1
        bad == [ok |-> FALSE, core |-> ZeroCoreTime]
        fields(s, fs, fracOk) ==
            LET f == IF fs # <<>> /\ IsDigit(fs[1]) THEN CharToDigit(fs[1]) ELSE 0
                mk(y, m, d, h, mi, sec) ==
                    IF y < 0 \/ m < 0 \/ d < 0 \/ h < 0 \/ mi < 0 \/ sec < 0 \/ ~fracOk THEN bad
                    ELSE [ok |-> TRUE, core |-> FromDate(y, m, d, h, mi, sec, f)]
            IN CASE Len(s) = 19 /\ At(s, 5, "-") /\ At(s, 8, "-") /\ At(s, 11, " ")
                        /\ At(s, 14, ":") /\ At(s, 17, ":") ->
                        mk(Num(s, 1, 4), Num(s, 6, 7), Num(s, 9, 10),
                           Num(s, 12, 13), Num(s, 15, 16), Num(s, 18, 19))
                 [] Len(s) = 10 /\ At(s, 5, "-") /\ At(s, 8, "-") ->
                        mk(Num(s, 1, 4), Num(s, 6, 7), Num(s, 9, 10), 0, 0, 0)
                 [] Len(s) = 14 /\ AllDigits(s) ->
                        mk(Num(s, 1, 4), Num(s, 5, 6), Num(s, 7, 8),
                           Num(s, 9, 10), Num(s, 11, 12), Num(s, 13, 14))
                 [] Len(s) = 12 /\ AllDigits(s) ->
                        mk(AdjustYear(Num(s, 1, 2)), Num(s, 3, 4), Num(s, 5, 6),
                           Num(s, 7, 8), Num(s, 9, 10), Num(s, 11, 12))
                 [] Len(s) = 8 /\ AllDigits(s) ->
                        mk(Num(s, 1, 4), Num(s, 5, 6), Num(s, 7, 8), 0, 0, 0)
                 [] Len(s) = 6 /\ AllDigits(s) ->
                        mk(AdjustYear(Num(s, 1, 2)), Num(s, 3, 4), Num(s, 5, 6), 0, 0, 0)
                 [] OTHER -> bad
        split(at) ==
            fields(SubSeq(str, 1, at - 1), SubSeq(str, at + 1, Len(str)),
                   at > Len(str) \/ AllDigits(SubSeq(str, at + 1, Len(str))))
    IN split(dot)

\* types.ParseTime(sc, str, tp, fsp): the literal parsed, tagged tp, checked
\* and rounded to fsp.  The time of day of a DATE is left as parsed.
ParseTime(str, tp, fsp) ==
    LET checked(p, t) ==
            IF ~p.ok \/ TimeCheck(t) # nil
            THEN [val |-> ZeroTimeOf(tp), err |-> types.ErrInvalidTimeFormat]
            ELSE TimeRoundFrac(t, fsp)
        parsed(p) == checked(p, NewTime(p.core, tp, fsp))
    IN parsed(ParseDatetimeCore(str))

\* types.ParseTimeFromNum(sc, num, tp, fsp): 0 is the zero time, a number
\* below 101 is no date, a larger one is read as its digits are.
ParseTimeFromNum(num, tp, fsp) ==
    IF num = 0 THEN [val |-> NewTime(ZeroCoreTime, tp, fsp), err |-> nil]
    ELSE IF num < 101 THEN [val |-> ZeroTimeOf(tp), err |-> types.ErrInvalidTimeFormat]
    ELSE LET ds == NatDigits(num)
             padded == IF Len(ds) < 6 THEN PadZeros(<<>>, 6 - Len(ds)) \o ds
                       ELSE IF Len(ds) = 7 THEN <<0>> \o ds
                       ELSE ds
         IN ParseTime(DigitsToStr(padded), tp, fsp)

\* -------------------------------------------------------------- duration
\* types.Duration: a signed count of tenths of a second, and fsp.
NewDuration(d, fsp) == [Duration |-> d, Fsp |-> fsp]
ZeroDuration == NewDuration(0, DefaultFsp)
\* TimeMaxValue: 838:59:59 as the number 8385959; its length in tenths.
TimeMaxValue == 8385959
TimeMaxHour == 838
TimeMaxDuration == ((838 * 3600) + (59 * 60) + 59) * 10
Abs(n) == IF n < 0 THEN -n ELSE n

DurationHour(d) == (Abs(d.Duration) \div 10) \div 3600
DurationMinute(d) == ((Abs(d.Duration) \div 10) \div 60) % 60
DurationSecond(d) == (Abs(d.Duration) \div 10) % 60
DurationFrac(d) == Abs(d.Duration) % 10

\* Duration.RoundFrac(fsp): tenths rounded away from zero when fsp is 0.
DurationRoundFrac(d, fsp) ==
    LET a == Abs(d.Duration)
        r == IF fsp > 0 THEN a ELSE ((a + 5) \div 10) * 10
    IN [val |-> NewDuration(IF d.Duration < 0 THEN -r ELSE r, fsp), err |-> nil]

\* Duration.ToNumber(): [-]hhmmss[.fraction]
DurationToNumber(d) ==
    Dec(d.Duration < 0,
        NatDigits(DurationHour(d)) \o TwoDigits(DurationMinute(d))
            \o TwoDigits(DurationSecond(d)),
        FracDigits(DurationFrac(d), d.Fsp))

\* Duration.String(): "[-]hh:mm:ss[.fraction]"
DurationString(d) ==
    (IF d.Duration < 0 THEN <<"-">> ELSE <<>>)
    \o (IF DurationHour(d) < 10 THEN <<"0">> ELSE <<>>) \o FormatUint(DurationHour(d))
    \o <<":">> \o DigitsToStr(TwoDigits(DurationMinute(d)))
    \o <<":">> \o DigitsToStr(TwoDigits(DurationSecond(d)))
    \o (IF d.Fsp > 0 THEN <<".">> \o DigitsToStr(FracDigits(DurationFrac(d), d.Fsp)) ELSE <<>>)

\* Time.ConvertToDuration(): the time of day.
TimeConvertToDuration(t) ==
    [val |-> NewDuration((((t.Hour * 3600) + (t.Minute * 60) + t.Second) * 10) + t.Frac, t.Fsp),
     err |-> nil]

\* Duration.ConvertToTime(sc, tp): the duration added to midnight of the
\* current date, as a DATETIME, then Convert(sc, tp).
DurationConvertToTime(d, tp) ==
    LET tenthsPerDay == 24 * 3600 * 10
        days == IF d.Duration >= 0 THEN d.Duration \div tenthsPerDay
                ELSE -((-d.Duration + tenthsPerDay - 1) \div tenthsPerDay)
        inDay == d.Duration - (days * tenthsPerDay)
        secs == inDay \div 10
        midnight == FromDate(CurrentDate.Year, CurrentDate.Month, CurrentDate.Day, 0, 0, 0, 0)
        day == AddDays(midnight, days)
        core == [day EXCEPT !.Hour = secs \div 3600, !.Minute = (secs \div 60) % 60,
                            !.Second = secs % 60, !.Frac = inDay % 10]
    IN TimeConvert(NewTime(core, mysql.TypeDatetime, d.Fsp), tp)

\* The clock part of a duration literal: "hh:mm:ss", "hh:mm" or up to seven
\* digits [h]hhmmss, as [ok, h, m, s].
ParseClock(s) ==
    LET bad == [ok |-> FALSE, h |-> 0, m |-> 0, s |-> 0]
        mk(h, m, sec) == IF h < 0 \/ m < 0 \/ sec < 0 THEN bad
                         ELSE [ok |-> TRUE, h |-> h, m |-> m, s |-> sec]
        n == Len(s)
    IN CASE n \in 7..9 /\ At(s, n - 5, ":") /\ At(s, n - 2, ":") ->
                mk(Num(s, 1, n - 6), Num(s, n - 4, n - 3), Num(s, n - 1, n))
         [] n \in 4..6 /\ At(s, n - 2, ":") ->
                mk(Num(s, 1, n - 3), Num(s, n - 1, n), 0)
         [] n \in 1..7 /\ AllDigits(s) ->
                mk(DigitsVal(StrToDigits(SubSeq(s, 1, n - 4)), 1000),
                   DigitsVal(StrToDigits(SubSeq(s, Max(1, n - 3), n - 2)), 1000),
                   DigitsVal(StrToDigits(SubSeq(s, Max(1, n - 1), n)), 1000))
         [] OTHER -> bad

\* types.ParseDuration(str, fsp): a signed clock literal with an optional
\* ".fraction".  Text that is no duration gives the zero duration and
\* ErrTruncatedWrongVal; a literal followed by other text gives the literal's
\* duration and ErrTruncatedWrongVal; a duration past 838:59:59 is cut to it.
ParseDuration(str, fsp) ==
    LET neg == str # <<>> /\ str[1] = "-"
        isClockChar(ch) == IsDigit(ch) \/ ch = ":"
        clockLen(body) ==
            IF \E i \in 1..Len(body) : ~isClockChar(body[i])
            THEN (CHOOSE i \in 1..Len(body) :
                      ~isClockChar(body[i]) /\ \A k \in 1..(i - 1) : isClockChar(body[k])) - 1
            ELSE Len(body)
        rounded(clock, junk, r) ==
            IF ~clock.ok \/ clock.m >= 60 \/ clock.s >= 60 \/ clock.h > 999
            THEN [val |-> ZeroDuration, err |-> types.ErrTruncatedWrongVal]
            ELSE [val |-> IF junk /\ r.Duration = 0 THEN ZeroDuration ELSE r,
                  err |-> IF junk THEN types.ErrTruncatedWrongVal ELSE nil]
        capped(clock, junk, cut) ==
            rounded(clock, junk,
                    DurationRoundFrac(NewDuration(IF neg THEN -cut ELSE cut, fsp), fsp).val)
        literal(clock, f, junk) ==
            capped(clock, junk,
                   Min((((clock.h * 3600) + (clock.m * 60) + clock.s) * 10) + f, TimeMaxDuration))
        fraction(clock, after, dotted) ==
            literal(clock,
                    IF dotted THEN CharToDigit(after[2]) ELSE 0,
                    SubSeq(after, (IF dotted THEN 1 + DigitPrefixLen(Tail(after)) ELSE 0) + 1,
                           Len(after)) # <<>>)
        tail(clock, after) ==
            fraction(clock, after, Len(after) >= 2 /\ after[1] = "." /\ IsDigit(after[2]))
        split(body, nc) == tail(ParseClock(SubSeq(body, 1, nc)), SubSeq(body, nc + 1, Len(body)))
        unsignedPart(body) == split(body, clockLen(body))
    IN IF str = <<>> THEN [val |-> ZeroDuration, err |-> nil]
       ELSE unsignedPart(IF neg THEN Tail(str) ELSE str)

\* types.NumberToDuration(number, fsp): the number read as [-]hhmmss; past
\* TimeMaxValue it overflows, with minutes or seconds above 59 it is invalid.
NumberToDuration(number, fsp) ==
    LET a == Abs(number)
        h == a \div 10000
        m == (a \div 100) % 100
        sec == a % 100
        tenths == ((h * 3600) + (m * 60) + sec) * 10
    IN IF a > TimeMaxValue
       THEN [val |-> NewDuration(IF number < 0 THEN -TimeMaxDuration ELSE TimeMaxDuration, fsp),
             err |-> types.ErrOverflow]
       ELSE IF h > TimeMaxHour \/ m >= 60 \/ sec >= 60
       THEN [val |-> ZeroDuration, err |-> types.ErrInvalidTimeFormat]
       ELSE [val |-> NewDuration(IF number < 0 THEN -tenths ELSE tenths, fsp), err |-> nil]

\* ------------------------------------------------------------------ json
ZeroFloat == [neg |-> FALSE, int |-> <<>>, frac |-> <<>>]

\* json.BinaryJSON: the type code and the scalar it holds.
JSON(code, i, str, f) == [TypeCode |-> code, Int |-> i, Str |-> str, Flt |-> f]
\* json.BinaryJSON{}
ZeroJSON == JSON("none", 0, <<>>, ZeroFloat)
\* json.CreateBinary(x), by the Go type of x.
CreateBinaryBool(b) == JSON(json.TypeCodeLiteral, 0, IF b THEN json.LiteralTrue ELSE json.LiteralFalse, ZeroFloat)
CreateBinaryInt64(i) == JSON(json.TypeCodeInt64, i, <<>>, ZeroFloat)
CreateBinaryUint64(u) == JSON(json.TypeCodeUint64, u, <<>>, ZeroFloat)
CreateBinaryFloat64(f) == JSON(json.TypeCodeFloat64, 0, <<>>, f)
CreateBinaryString(str) == JSON(json.TypeCodeString, 0, str, ZeroFloat)
JSONObject == JSON(json.TypeCodeObject, 0, <<"{", "}">>, ZeroFloat)

\* BinaryJSON.String(): the JSON text; a string scalar is quoted.
JSONString(j) ==
    CASE j.TypeCode = json.TypeCodeInt64 -> FormatInt(j.Int)
      [] j.TypeCode = json.TypeCodeUint64 -> FormatUint(j.Int)
      [] j.TypeCode = json.TypeCodeFloat64 -> FormatFloat(j.Flt)
      [] j.TypeCode = json.TypeCodeString -> <<"\"">> \o j.Str \o <<"\"">>
      [] OTHER -> j.Str

\* BinaryJSON.Unquote(): a string scalar without its quotes, else the text.
JSONUnquote(j) ==
    IF j.TypeCode = json.TypeCodeString THEN [val |-> j.Str, err |-> nil]
    ELSE [val |-> JSONString(j), err |-> nil]

\* json.ParseBinaryFromString(s): a literal, a number, a quoted string or {};
\* other text is malformed.
ParseBinaryFromString(str) ==
    LET n == Len(str)
        integer(p, i) ==
            IF p.dec.frac = <<>> /\ i.err = nil
            THEN [val |-> CreateBinaryInt64(i.val), err |-> nil]
            ELSE [val |-> CreateBinaryFloat64(Float(p.dec)), err |-> nil]
        number(p) ==
            IF n >= 1 /\ p.ok /\ p.rest = <<>> /\ str[1] # "+" THEN integer(p, DecToInt(p.dec))
            ELSE [val |-> ZeroJSON, err |-> json.ErrInvalidJSONText]
    IN CASE str = json.LiteralTrue -> [val |-> CreateBinaryBool(TRUE), err |-> nil]
         [] str = json.LiteralFalse -> [val |-> CreateBinaryBool(FALSE), err |-> nil]
         [] str = json.LiteralNil ->
                [val |-> JSON(json.TypeCodeLiteral, 0, json.LiteralNil, ZeroFloat), err |-> nil]
         [] str = <<"{", "}">> -> [val |-> JSONObject, err |-> nil]
         [] n >= 2 /\ str[1] = "\"" /\ str[n] = "\""
                /\ \A i \in 2..(n - 1) : str[i] # "\"" ->
                [val |-> CreateBinaryString(SubSeq(str, 2, n - 1)), err |-> nil]
         [] OTHER -> number(NumberPrefix(str))

\* types.ConvertJSONToInt(sc, j, unsigned)
ConvertJSONToInt(c, j, unsigned) ==
    CASE j.TypeCode = json.TypeCodeLiteral ->
            [val |-> IF j.Str = json.LiteralTrue THEN 1 ELSE 0, err |-> nil, sc |-> c]
      [] j.TypeCode = json.TypeCodeInt64 -> [val |-> j.Int, err |-> nil, sc |-> c]
      [] j.TypeCode = json.TypeCodeUint64 -> [val |-> Int64OfUint64(j.Int), err |-> nil, sc |-> c]
      [] j.TypeCode = json.TypeCodeFloat64 ->
            IF ~unsigned
            THEN LET r == ConvertFloatToInt(j.Flt, MinInt64, MaxInt64)
                 IN [val |-> r.val, err |-> r.err, sc |-> c]
            ELSE LET r == ConvertFloatToUint(j.Flt, MaxUint64)
                 IN [val |-> Int64OfUint64(r.val), err |-> r.err, sc |-> c]
      [] j.TypeCode = json.TypeCodeString -> StrToInt(c, j.Str)
      [] OTHER -> [val |-> 0, err |-> nil, sc |-> c]

\* types.ConvertJSONToFloat(sc, j)
ConvertJSONToFloat(c, j) ==
    CASE j.TypeCode = json.TypeCodeLiteral ->
            [val |-> FloatOfInt(IF j.Str = json.LiteralTrue THEN 1 ELSE 0), err |-> nil, sc |-> c]
      [] j.TypeCode = json.TypeCodeInt64 -> [val |-> FloatOfInt(j.Int), err |-> nil, sc |-> c]
      [] j.TypeCode = json.TypeCodeUint64 -> [val |-> FloatOfUint(j.Int), err |-> nil, sc |-> c]
      [] j.TypeCode = json.TypeCodeFloat64 -> [val |-> j.Flt, err |-> nil, sc |-> c]
      [] j.TypeCode = json.TypeCodeString -> StrToFloat(c, j.Str)
      [] OTHER -> [val |-> ZeroFloat, err |-> nil, sc |-> c]

\* ------------------------------------------------------ source accessors
\* args[0].EvalXX(ctx, row): (value, isNull, err) of the argument on the row.
\* A hybrid source and a binary literal carry a numeric and a textual view.
TwoViews(arg) == Hybrid(arg) \/ IsBinaryLiteral(arg)
ZeroTime == NewTime(ZeroCoreTime, "TypeUnspecified", DefaultFsp)
NilDecimal == [neg |-> FALSE, int |-> <<>>, frac |-> <<>>]
Failed(row) == row.isNull \/ row.err # nil
Acc(row, zero, v) ==
    [val |-> IF Failed(row) THEN zero ELSE v, isNull |-> row.isNull, err |-> row.err]

EvalInt(arg, row) == Acc(row, 0, IF TwoViews(arg) THEN row.val.num ELSE row.val)
EvalReal(arg, row) ==
    Acc(row, ZeroFloat, IF TwoViews(arg) THEN FloatOfInt(row.val.num) ELSE row.val)
EvalDecimal(arg, row) ==
    Acc(row, NilDecimal, IF TwoViews(arg) THEN NewDecFromInt(row.val.num) ELSE row.val)
EvalString(arg, row) == Acc(row, <<>>, IF TwoViews(arg) THEN row.val.text ELSE row.val)
EvalTime(arg, row) == Acc(row, ZeroTime, row.val)
EvalDuration(arg, row) == Acc(row, ZeroDuration, row.val)
EvalJSON(arg, row) == Acc(row, ZeroJSON, row.val)

\* -------------------------------------------------------------- routines
\* Each routine is (sc, args[0]'s type, b.tp, row) -> [val, isNull, err, sc]:
\* what the Go method returns and the statement context it leaves.
Ret(val, isNull, err, c) == [val |-> val, isNull |-> isNull, err |-> err, sc |-> c]

\* FromDate(year, month, day, 0, 0, 0, 0) of a result: the DATE truncation.
TruncateToDate(t) == [t EXCEPT !.Hour = 0, !.Minute = 0, !.Second = 0, !.Frac = 0]

builtinCastIntAsIntSig_evalInt(c, arg, tp, row) ==
    LET a == EvalInt(arg, row) IN Ret(a.val, a.isNull, a.err, c)

builtinCastIntAsRealSig_evalReal(c, arg, tp, row) ==
    LET a == EvalInt(arg, row)
    IN IF a.isNull \/ a.err # nil THEN Ret(ZeroFloat, a.isNull, a.err, c)
       ELSE IF ~HasUnsignedFlag(arg.Flag) THEN Ret(FloatOfInt(a.val), FALSE, nil, c)
       ELSE LET u == ConvertIntToUint(a.val, MaxUint64)
            IN Ret(FloatOfUint(u.val), FALSE, u.err, c)

builtinCastIntAsDecimalSig_evalDecimal(c, arg, tp, row) ==
    LET a == EvalInt(arg, row)
        u == ConvertIntToUint(a.val, MaxUint64)
        d == IF ~HasUnsignedFlag(arg.Flag) THEN NewDecFromInt(a.val) ELSE NewDecFromUint(u.val)
        p == ProduceDecWithSpecifiedTp(d, tp, c)
    IN IF a.isNull \/ a.err # nil THEN Ret(NilDecimal, a.isNull, a.err, c)
       ELSE IF HasUnsignedFlag(arg.Flag) /\ u.err # nil THEN Ret(NilDecimal, FALSE, u.err, c)
       ELSE Ret(p.val, a.isNull, p.err, p.sc)

builtinCastIntAsStringSig_evalString(c, arg, tp, row) ==
    LET a == EvalInt(arg, row)
        u == ConvertIntToUint(a.val, MaxUint64)
        str == IF ~HasUnsignedFlag(arg.Flag) THEN FormatInt(a.val) ELSE FormatUint(u.val)
        p == ProduceStrWithSpecifiedTp(str, tp, c)
    IN IF a.isNull \/ a.err # nil THEN Ret(<<>>, a.isNull, a.err, c)
       ELSE IF HasUnsignedFlag(arg.Flag) /\ u.err # nil THEN Ret(<<>>, FALSE, u.err, c)
       ELSE Ret(p.val, FALSE, p.err, p.sc)

builtinCastIntAsTimeSig_evalTime(c, arg, tp, row) ==
    LET a == EvalInt(arg, row)
        p == ParseTimeFromNum(a.val, tp.Tp, tp.Decimal)
    IN IF a.isNull \/ a.err # nil THEN Ret(ZeroTime, a.isNull, a.err, c)
       ELSE IF p.err # nil THEN Ret(p.val, TRUE, p.err, c)
       ELSE IF tp.Tp = mysql.TypeDate THEN Ret(TruncateToDate(p.val), FALSE, nil, c)
       ELSE Ret(p.val, FALSE, nil, c)

\* A faulty evalDuration: an overflow the sink downgrades returns the clamped
\* duration.
builtinCastIntAsDurationSig_evalDuration_Clamped(c, arg, tp, row) ==
    LET a == EvalInt(arg, row)
        n == NumberToDuration(a.val, tp.Decimal)
        h == HandleOverflow(c, n.err, n.err)
    IN IF a.isNull \/ a.err # nil THEN Ret(ZeroDuration, a.isNull, a.err, c)
       ELSE IF n.err # nil
       THEN (IF n.err = types.ErrOverflow THEN Ret(n.val, h.err # nil, h.err, h.sc)
             ELSE Ret(ZeroDuration, TRUE, n.err, c))
       ELSE Ret(n.val, FALSE, nil, c)

builtinCastIntAsDurationSig_evalDuration(c, arg, tp, row) ==
    LET a == EvalInt(arg, row)
        n == NumberToDuration(a.val, tp.Decimal)
        h == HandleOverflow(c, n.err, n.err)
    IN IF a.isNull \/ a.err # nil THEN Ret(ZeroDuration, a.isNull, a.err, c)
       ELSE IF n.err # nil
       THEN (IF n.err = types.ErrOverflow THEN Ret(ZeroDuration, TRUE, h.err, h.sc)
             ELSE Ret(ZeroDuration, TRUE, n.err, c))
       ELSE Ret(n.val, FALSE, nil, c)

\* A faulty evalJSON: the unsigned flag is looked at before the boolean flag.
builtinCastIntAsJSONSig_evalJSON_UnsignedFirst(c, arg, tp, row) ==
    LET a == EvalInt(arg, row)
    IN IF a.isNull \/ a.err # nil THEN Ret(ZeroJSON, a.isNull, a.err, c)
       ELSE IF HasUnsignedFlag(arg.Flag)
       THEN Ret(CreateBinaryUint64(Uint64OfInt64(a.val)), FALSE, nil, c)
       ELSE IF HasIsBooleanFlag(arg.Flag) THEN Ret(CreateBinaryBool(a.val # 0), FALSE, nil, c)
       ELSE Ret(CreateBinaryInt64(a.val), FALSE, nil, c)

builtinCastIntAsJSONSig_evalJSON(c, arg, tp, row) ==
    LET a == EvalInt(arg, row)
    IN IF a.isNull \/ a.err # nil THEN Ret(ZeroJSON, a.isNull, a.err, c)
       ELSE IF HasIsBooleanFlag(arg.Flag) THEN Ret(CreateBinaryBool(a.val # 0), FALSE, nil, c)
       ELSE IF HasUnsignedFlag(arg.Flag)
       THEN Ret(CreateBinaryUint64(Uint64OfInt64(a.val)), FALSE, nil, c)
       ELSE Ret(CreateBinaryInt64(a.val), FALSE, nil, c)

builtinCastRealAsJSONSig_evalJSON(c, arg, tp, row) ==
    LET a == EvalReal(arg, row)
    IN Ret(CreateBinaryFloat64(a.val), a.isNull, a.err, c)

builtinCastDecimalAsJSONSig_evalJSON(c, arg, tp, row) ==
    LET a == EvalDecimal(arg, row)
    IN IF a.isNull \/ a.err # nil THEN Ret(ZeroJSON, TRUE, a.err, c)
       ELSE Ret(CreateBinaryFloat64(DecToFloat64(a.val)), a.isNull, nil, c)

builtinCastStringAsJSONSig_evalJSON(c, arg, tp, row) ==
    LET a == EvalString(arg, row)
        p == ParseBinaryFromString(a.val)
    IN IF a.isNull \/ a.err # nil THEN Ret(ZeroJSON, a.isNull, a.err, c)
       ELSE IF HasParseToJSONFlag(tp.Flag) THEN Ret(p.val, FALSE, p.err, c)
       ELSE Ret(CreateBinaryString(a.val), FALSE, nil, c)

builtinCastDurationAsJSONSig_evalJSON(c, arg, tp, row) ==
    LET a == EvalDuration(arg, row)
    IN IF a.isNull \/ a.err # nil THEN Ret(ZeroJSON, a.isNull, a.err, c)
       ELSE Ret(CreateBinaryString(DurationString([a.val EXCEPT !.Fsp = MaxFsp])), FALSE, nil, c)

builtinCastTimeAsJSONSig_evalJSON(c, arg, tp, row) ==
    LET a == EvalTime(arg, row)
        v == IF a.val.Type \in {mysql.TypeDatetime, mysql.TypeTimestamp}
             THEN [a.val EXCEPT !.Fsp = MaxFsp] ELSE a.val
    IN IF a.isNull \/ a.err # nil THEN Ret(ZeroJSON, a.isNull, a.err, c)
       ELSE Ret(CreateBinaryString(TimeString(v)), FALSE, nil, c)

builtinCastRealAsRealSig_evalReal(c, arg, tp, row) ==
    LET a == EvalReal(arg, row) IN Ret(a.val, a.isNull, a.err, c)

builtinCastRealAsIntSig_evalInt(c, arg, tp, row) ==
    LET a == EvalReal(arg, row)
        i == ConvertFloatToInt(a.val, MinInt64, MaxInt64)
        u == ConvertFloatToUint(a.val, MaxUint64)
    IN IF a.isNull \/ a.err # nil THEN Ret(0, a.isNull, a.err, c)
       ELSE IF ~HasUnsignedFlag(tp.Flag) THEN Ret(i.val, a.isNull, i.err, c)
       ELSE Ret(Int64OfUint64(u.val), a.isNull, u.err, c)

builtinCastRealAsDecimalSig_evalDecimal(c, arg, tp, row) ==
    LET a == EvalReal(arg, row)
        p == ProduceDecWithSpecifiedTp(DecFromFloat64(a.val), tp, c)
    IN IF a.isNull \/ a.err # nil THEN Ret(NilDecimal, a.isNull, a.err, c)
       ELSE Ret(p.val, FALSE, p.err, p.sc)

builtinCastRealAsStringSig_evalString(c, arg, tp, row) ==
    LET a == EvalReal(arg, row)
        p == ProduceStrWithSpecifiedTp(FormatFloat(a.val), tp, c)
    IN IF a.isNull \/ a.err # nil THEN Ret(<<>>, a.isNull, a.err, c)
       ELSE Ret(p.val, a.isNull, p.err, p.sc)

builtinCastRealAsTimeSig_evalTime(c, arg, tp, row) ==
    LET a == EvalReal(arg, row)
        p == ParseTime(FormatFloat(a.val), tp.Tp, tp.Decimal)
    IN IF a.isNull \/ a.err # nil THEN Ret(ZeroTime, TRUE, a.err, c)
       ELSE IF p.err # nil THEN Ret(ZeroTime, TRUE, p.err, c)
       ELSE IF tp.Tp = mysql.TypeDate THEN Ret(TruncateToDate(p.val), FALSE, nil, c)
       ELSE Ret(p.val, FALSE, nil, c)

builtinCastRealAsDurationSig_evalDuration(c, arg, tp, row) ==
    LET a == EvalReal(arg, row)
        p == ParseDuration(FormatFloat(a.val), tp.Decimal)
    IN IF a.isNull \/ a.err # nil THEN Ret(ZeroDuration, a.isNull, a.err, c)
       ELSE Ret(p.val, FALSE, p.err, c)

builtinCastDecimalAsDecimalSig_evalDecimal(c, arg, tp, row) ==
    LET a == EvalDecimal(arg, row)
        p == ProduceDecWithSpecifiedTp(a.val, tp, c)
    IN IF a.isNull \/ a.err # nil THEN Ret(NilDecimal, a.isNull, a.err, c)
       ELSE Ret(p.val, FALSE, p.err, p.sc)

\* A faulty evalInt: the fraction is cut instead of rounded half to even.
builtinCastDecimalAsIntSig_evalInt_Truncating(c, arg, tp, row) ==
    LET a == EvalDecimal(arg, row)
        to == DecRound(a.val, 0, types.ModeTruncate)
        u == DecToUint(to)
        i == DecToInt(to)
        res == IF HasUnsignedFlag(tp.Flag) THEN Int64OfUint64(u.val) ELSE i.val
        err == IF HasUnsignedFlag(tp.Flag) THEN u.err ELSE i.err
        h == HandleOverflow(c, err, types.ErrTruncatedWrongVal)
    IN IF a.isNull \/ a.err # nil THEN Ret(0, a.isNull, a.err, c)
       ELSE IF err = types.ErrOverflow THEN Ret(res, FALSE, h.err, h.sc)
       ELSE Ret(res, FALSE, err, c)

builtinCastDecimalAsIntSig_evalInt(c, arg, tp, row) ==
    LET a == EvalDecimal(arg, row)
        to == DecRound(a.val, 0, types.ModeHalfEven)
        u == DecToUint(to)
        i == DecToInt(to)
        res == IF HasUnsignedFlag(tp.Flag) THEN Int64OfUint64(u.val) ELSE i.val
        err == IF HasUnsignedFlag(tp.Flag) THEN u.err ELSE i.err
        h == HandleOverflow(c, err, types.ErrTruncatedWrongVal)
    IN IF a.isNull \/ a.err # nil THEN Ret(0, a.isNull, a.err, c)
       ELSE IF err = types.ErrOverflow THEN Ret(res, FALSE, h.err, h.sc)
       ELSE Ret(res, FALSE, err, c)

builtinCastDecimalAsStringSig_evalString(c, arg, tp, row) ==
    LET a == EvalDecimal(arg, row)
        p == ProduceStrWithSpecifiedTp(DecToString(a.val), tp, c)
    IN IF a.isNull \/ a.err # nil THEN Ret(<<>>, a.isNull, a.err, c)
       ELSE Ret(p.val, FALSE, p.err, p.sc)

builtinCastDecimalAsRealSig_evalReal(c, arg, tp, row) ==
    LET a == EvalDecimal(arg, row)
    IN IF a.isNull \/ a.err # nil THEN Ret(ZeroFloat, a.isNull, a.err, c)
       ELSE Ret(DecToFloat64(a.val), FALSE, nil, c)

builtinCastDecimalAsTimeSig_evalTime(c, arg, tp, row) ==
    LET a == EvalDecimal(arg, row)
        p == ParseTime(DecToString(a.val), tp.Tp, tp.Decimal)
    IN IF a.isNull \/ a.err # nil THEN Ret(ZeroTime, a.isNull, a.err, c)
       ELSE IF p.err # nil THEN Ret(p.val, FALSE, p.err, c)
       ELSE IF tp.Tp = mysql.TypeDate THEN Ret(TruncateToDate(p.val), FALSE, nil, c)
       ELSE Ret(p.val, FALSE, nil, c)

builtinCastDecimalAsDurationSig_evalDuration(c, arg, tp, row) ==
    LET a == EvalDecimal(arg, row)
        p == ParseDuration(DecToString(a.val), tp.Decimal)
        h == HandleTruncate(c, p.err)
    IN IF a.isNull \/ a.err # nil THEN Ret(ZeroDuration, FALSE, a.err, c)
       ELSE IF p.err = types.ErrTruncatedWrongVal
       THEN (IF p.val = ZeroDuration THEN Ret(p.val, TRUE, h.err, h.sc)
             ELSE Ret(p.val, FALSE, h.err, h.sc))
       ELSE Ret(p.val, FALSE, p.err, c)

builtinCastStringAsStringSig_evalString(c, arg, tp, row) ==
    LET a == EvalString(arg, row)
        p == ProduceStrWithSpecifiedTp(a.val, tp, c)
    IN IF a.isNull \/ a.err # nil THEN Ret(a.val, a.isNull, a.err, c)
       ELSE Ret(p.val, FALSE, p.err, p.sc)

\* A faulty handleOverflow: the endpoint is stored, but the error is not handed
\* to the sink, so a lenient statement still fails.
builtinCastStringAsIntSig_handleOverflow_NoDowngrade(c, origRes, origErr, isNegative) ==
    IF origErr = nil THEN [res |-> origRes, err |-> origErr, sc |-> c]
    ELSE IF c.InSelectStmt /\ origErr = types.ErrOverflow
    THEN [res |-> IF isNegative THEN MinInt64 ELSE Int64OfUint64(MaxUint64),
          err |-> origErr, sc |-> c]
    ELSE [res |-> origRes, err |-> origErr, sc |-> c]

\* A faulty handleOverflow: a string without '-' clamps to the signed endpoint.
builtinCastStringAsIntSig_handleOverflow_SignedEndpoint(c, origRes, origErr, isNegative) ==
    IF origErr = nil THEN [res |-> origRes, err |-> origErr, sc |-> c]
    ELSE IF c.InSelectStmt /\ origErr = types.ErrOverflow
    THEN LET h == HandleOverflow(c, origErr, types.ErrTruncatedWrongVal)
         IN [res |-> IF isNegative THEN MinInt64 ELSE MaxInt64,
             err |-> h.err, sc |-> h.sc]
    ELSE [res |-> origRes, err |-> origErr, sc |-> c]

\* handleOverflow(origRes, origStr, origErr, isNegative): [res, err, sc].
builtinCastStringAsIntSig_handleOverflow(c, origRes, origErr, isNegative) ==
    IF origErr = nil THEN [res |-> origRes, err |-> origErr, sc |-> c]
    ELSE IF c.InSelectStmt /\ origErr = types.ErrOverflow
    THEN LET h == HandleOverflow(c, origErr, types.ErrTruncatedWrongVal)
         IN [res |-> IF isNegative THEN MinInt64 ELSE Int64OfUint64(MaxUint64),
             err |-> h.err, sc |-> h.sc]
    ELSE [res |-> origRes, err |-> origErr, sc |-> c]

\* A faulty evalInt: the warning of a negative string is appended whether or
\* not the parse returned an error.
builtinCastStringAsIntSig_evalInt_WarnAlways(c, arg, tp, row) ==
    LET a == EvalString(arg, row)
        val == TrimSpace(a.val)
        isNegative == Len(val) > 1 /\ val[1] = "-"
        i == EvalInt(arg, row)
        handled(h) == Ret(h.res, FALSE, h.err, h.sc)
        negative(si) ==
            handled(builtinCastStringAsIntSig_handleOverflow(
                        AppendWarning(si.sc, types.ErrCastNegIntAsUnsigned),
                        si.val, si.err, isNegative))
        positive(su) ==
            handled(builtinCastStringAsIntSig_handleOverflow(
                        IF su.err = nil /\ ~HasUnsignedFlag(tp.Flag) /\ su.val > MaxInt64
                        THEN AppendWarning(su.sc, types.ErrCastAsSignedOverflow)
                        ELSE su.sc,
                        Int64OfUint64(su.val), su.err, isNegative))
    IN IF Hybrid(arg) \/ IsBinaryLiteral(arg) THEN Ret(i.val, i.isNull, i.err, c)
       ELSE IF a.isNull \/ a.err # nil THEN Ret(0, a.isNull, a.err, c)
       ELSE IF isNegative THEN negative(StrToInt(c, val))
       ELSE positive(StrToUint(c, val))

\* A faulty evalInt: every string goes through the unsigned parse.
builtinCastStringAsIntSig_evalInt_UnsignedOnly(c, arg, tp, row) ==
    LET a == EvalString(arg, row)
        val == TrimSpace(a.val)
        i == EvalInt(arg, row)
        handled(h) == Ret(h.res, FALSE, h.err, h.sc)
        positive(su) ==
            handled(builtinCastStringAsIntSig_handleOverflow(
                        IF su.err = nil /\ ~HasUnsignedFlag(tp.Flag) /\ su.val > MaxInt64
                        THEN AppendWarning(su.sc, types.ErrCastAsSignedOverflow)
                        ELSE su.sc,
                        Int64OfUint64(su.val), su.err, FALSE))
    IN IF Hybrid(arg) \/ IsBinaryLiteral(arg) THEN Ret(i.val, i.isNull, i.err, c)
       ELSE IF a.isNull \/ a.err # nil THEN Ret(0, a.isNull, a.err, c)
       ELSE positive(StrToUint(c, val))

\* A faulty evalInt: a negative string is converted without the warning.
builtinCastStringAsIntSig_evalInt_Silent(c, arg, tp, row) ==
    LET a == EvalString(arg, row)
        val == TrimSpace(a.val)
        isNegative == Len(val) > 1 /\ val[1] = "-"
        i == EvalInt(arg, row)
        handled(h) == Ret(h.res, FALSE, h.err, h.sc)
        negative(si) ==
            handled(builtinCastStringAsIntSig_handleOverflow(
                        si.sc,
                        si.val, si.err, isNegative))
        positive(su) ==
            handled(builtinCastStringAsIntSig_handleOverflow(
                        IF su.err = nil /\ ~HasUnsignedFlag(tp.Flag) /\ su.val > MaxInt64
                        THEN AppendWarning(su.sc, types.ErrCastAsSignedOverflow)
                        ELSE su.sc,
                        Int64OfUint64(su.val), su.err, isNegative))
    IN IF Hybrid(arg) \/ IsBinaryLiteral(arg) THEN Ret(i.val, i.isNull, i.err, c)
       ELSE IF a.isNull \/ a.err # nil THEN Ret(0, a.isNull, a.err, c)
       ELSE IF isNegative THEN negative(StrToInt(c, val))
       ELSE positive(StrToUint(c, val))

builtinCastStringAsIntSig_evalInt(c, arg, tp, row) ==
    LET a == EvalString(arg, row)
        val == TrimSpace(a.val)
        isNegative == Len(val) > 1 /\ val[1] = "-"
        i == EvalInt(arg, row)
        handled(h) == Ret(h.res, FALSE, h.err, h.sc)
        negative(si) ==
            handled(builtinCastStringAsIntSig_handleOverflow(
                        IF si.err = nil THEN AppendWarning(si.sc, types.ErrCastNegIntAsUnsigned)
                        ELSE si.sc,
                        si.val, si.err, isNegative))
        positive(su) ==
            handled(builtinCastStringAsIntSig_handleOverflow(
                        IF su.err = nil /\ ~HasUnsignedFlag(tp.Flag) /\ su.val > MaxInt64
                        THEN AppendWarning(su.sc, types.ErrCastAsSignedOverflow)
                        ELSE su.sc,
                        Int64OfUint64(su.val), su.err, isNegative))
    IN IF Hybrid(arg) \/ IsBinaryLiteral(arg) THEN Ret(i.val, i.isNull, i.err, c)
       ELSE IF a.isNull \/ a.err # nil THEN Ret(0, a.isNull, a.err, c)
       ELSE IF isNegative THEN negative(StrToInt(c, val))
       ELSE positive(StrToUint(c, val))

builtinCastStringAsRealSig_evalReal(c, arg, tp, row) ==
    LET a == EvalString(arg, row)
        f == StrToFloat(c, a.val)
        p == ProduceFloatWithSpecifiedTp(f.val, tp, f.sc)
        r == EvalReal(arg, row)
    IN IF IsBinaryLiteral(arg) THEN Ret(r.val, r.isNull, r.err, c)
       ELSE IF a.isNull \/ a.err # nil THEN Ret(ZeroFloat, a.isNull, a.err, c)
       ELSE IF f.err # nil THEN Ret(ZeroFloat, FALSE, f.err, f.sc)
       ELSE Ret(p.val, FALSE, p.err, p.sc)

builtinCastStringAsDecimalSig_evalDecimal(c, arg, tp, row) ==
    LET a == EvalString(arg, row)
        f == DecFromString(a.val)
        h == HandleTruncate(c, f.err)
        p == ProduceDecWithSpecifiedTp(f.val, tp, h.sc)
        d == EvalDecimal(arg, row)
    IN IF IsBinaryLiteral(arg) THEN Ret(d.val, d.isNull, d.err, c)
       ELSE IF a.isNull \/ a.err # nil THEN Ret(NilDecimal, a.isNull, a.err, c)
       ELSE IF h.err # nil THEN Ret(f.val, FALSE, h.err, h.sc)
       ELSE Ret(p.val, FALSE, p.err, p.sc)

builtinCastStringAsTimeSig_evalTime(c, arg, tp, row) ==
    LET a == EvalString(arg, row)
        p == ParseTime(a.val, tp.Tp, tp.Decimal)
    IN IF a.isNull \/ a.err # nil THEN Ret(ZeroTime, a.isNull, a.err, c)
       ELSE IF p.err # nil THEN Ret(p.val, FALSE, p.err, c)
       ELSE IF tp.Tp = mysql.TypeDate THEN Ret(TruncateToDate(p.val), FALSE, nil, c)
       ELSE Ret(p.val, FALSE, nil, c)

builtinCastStringAsDurationSig_evalDuration(c, arg, tp, row) ==
    LET a == EvalString(arg, row)
        p == ParseDuration(a.val, tp.Decimal)
        h == HandleTruncate(c, p.err)
    IN IF a.isNull \/ a.err # nil THEN Ret(ZeroDuration, a.isNull, a.err, c)
       ELSE IF p.err = types.ErrTruncatedWrongVal
       THEN (IF p.val = ZeroDuration THEN Ret(p.val, TRUE, h.err, h.sc)
             ELSE Ret(p.val, FALSE, h.err, h.sc))
       ELSE Ret(p.val, FALSE, p.err, c)

builtinCastTimeAsTimeSig_evalTime(c, arg, tp, row) ==
    LET a == EvalTime(arg, row)
        cv == TimeConvert(a.val, tp.Tp)
        r == TimeRoundFrac(cv.val, tp.Decimal)
    IN IF a.isNull \/ a.err # nil THEN Ret(a.val, a.isNull, a.err, c)
       ELSE IF cv.err # nil THEN Ret(cv.val, TRUE, cv.err, c)
       ELSE IF tp.Tp = mysql.TypeDate
       THEN Ret([TruncateToDate(r.val) EXCEPT !.Type = tp.Tp], FALSE, r.err, c)
       ELSE Ret(r.val, FALSE, r.err, c)

builtinCastTimeAsIntSig_evalInt(c, arg, tp, row) ==
    LET a == EvalTime(arg, row)
        t == TimeRoundFrac(a.val, DefaultFsp)
        n == DecToInt(TimeToNumber(t.val))
    IN IF a.isNull \/ a.err # nil THEN Ret(0, a.isNull, a.err, c)
       ELSE IF t.err # nil THEN Ret(0, FALSE, t.err, c)
       ELSE Ret(n.val, FALSE, n.err, c)

builtinCastTimeAsRealSig_evalReal(c, arg, tp, row) ==
    LET a == EvalTime(arg, row)
    IN IF a.isNull \/ a.err # nil THEN Ret(ZeroFloat, a.isNull, a.err, c)
       ELSE Ret(DecToFloat64(TimeToNumber(a.val)), FALSE, nil, c)

builtinCastTimeAsDecimalSig_evalDecimal(c, arg, tp, row) ==
    LET a == EvalTime(arg, row)
        p == ProduceDecWithSpecifiedTp(TimeToNumber(a.val), tp, c)
    IN IF a.isNull \/ a.err # nil THEN Ret(NilDecimal, a.isNull, a.err, c)
       ELSE Ret(p.val, FALSE, p.err, p.sc)

builtinCastTimeAsStringSig_evalString(c, arg, tp, row) ==
    LET a == EvalTime(arg, row)
        p == ProduceStrWithSpecifiedTp(TimeString(a.val), tp, c)
    IN IF a.isNull \/ a.err # nil THEN Ret(<<>>, a.isNull, a.err, c)
       ELSE Ret(p.val, FALSE, p.err, p.sc)

builtinCastTimeAsDurationSig_evalDuration(c, arg, tp, row) ==
    LET a == EvalTime(arg, row)
        d == TimeConvertToDuration(a.val)
        r == DurationRoundFrac(d.val, tp.Decimal)
    IN IF a.isNull \/ a.err # nil THEN Ret(ZeroDuration, a.isNull, a.err, c)
       ELSE IF d.err # nil THEN Ret(d.val, FALSE, d.err, c)
       ELSE Ret(r.val, FALSE, r.err, c)

builtinCastDurationAsDurationSig_evalDuration(c, arg, tp, row) ==
    LET a == EvalDuration(arg, row)
        r == DurationRoundFrac(a.val, tp.Decimal)
    IN IF a.isNull \/ a.err # nil THEN Ret(a.val, a.isNull, a.err, c)
       ELSE Ret(r.val, FALSE, r.err, c)

builtinCastDurationAsIntSig_evalInt(c, arg, tp, row) ==
    LET a == EvalDuration(arg, row)
        dur == DurationRoundFrac(a.val, DefaultFsp)
        n == DecToInt(DurationToNumber(dur.val))
    IN IF a.isNull \/ a.err # nil THEN Ret(0, a.isNull, a.err, c)
       ELSE IF dur.err # nil THEN Ret(0, FALSE, dur.err, c)
       ELSE Ret(n.val, FALSE, n.err, c)

builtinCastDurationAsRealSig_evalReal(c, arg, tp, row) ==
    LET a == EvalDuration(arg, row)
    IN IF a.isNull \/ a.err # nil THEN Ret(ZeroFloat, a.isNull, a.err, c)
       ELSE Ret(DecToFloat64(DurationToNumber(a.val)), FALSE, nil, c)

builtinCastDurationAsDecimalSig_evalDecimal(c, arg, tp, row) ==
    LET a == EvalDuration(arg, row)
        p == ProduceDecWithSpecifiedTp(DurationToNumber(a.val), tp, c)
    IN IF a.isNull \/ a.err # nil THEN Ret(NilDecimal, a.isNull, a.err, c)
       ELSE Ret(p.val, FALSE, p.err, p.sc)

builtinCastDurationAsStringSig_evalString(c, arg, tp, row) ==
    LET a == EvalDuration(arg, row)
        p == ProduceStrWithSpecifiedTp(DurationString(a.val), tp, c)
    IN IF a.isNull \/ a.err # nil THEN Ret(<<>>, a.isNull, a.err, c)
       ELSE Ret(p.val, FALSE, p.err, p.sc)

builtinCastDurationAsTimeSig_evalTime(c, arg, tp, row) ==
    LET a == EvalDuration(arg, row)
        t == DurationConvertToTime(a.val, tp.Tp)
        r == TimeRoundFrac(t.val, tp.Decimal)
    IN IF a.isNull \/ a.err # nil THEN Ret(ZeroTime, a.isNull, a.err, c)
       ELSE IF t.err # nil THEN Ret(t.val, FALSE, t.err, c)
       ELSE Ret(r.val, FALSE, r.err, c)

builtinCastJSONAsJSONSig_evalJSON(c, arg, tp, row) ==
    LET a == EvalJSON(arg, row) IN Ret(a.val, a.isNull, a.err, c)

builtinCastJSONAsIntSig_evalInt(c, arg, tp, row) ==
    LET a == EvalJSON(arg, row)
        r == ConvertJSONToInt(c, a.val, HasUnsignedFlag(tp.Flag))
    IN IF a.isNull \/ a.err # nil THEN Ret(0, a.isNull, a.err, c)
       ELSE Ret(r.val, a.isNull, r.err, r.sc)

builtinCastJSONAsRealSig_evalReal(c, arg, tp, row) ==
    LET a == EvalJSON(arg, row)
        r == ConvertJSONToFloat(c, a.val)
    IN IF a.isNull \/ a.err # nil THEN Ret(ZeroFloat, a.isNull, a.err, c)
       ELSE Ret(r.val, a.isNull, r.err, r.sc)

builtinCastJSONAsDecimalSig_evalDecimal(c, arg, tp, row) ==
    LET a == EvalJSON(arg, row)
        f == ConvertJSONToFloat(c, a.val)
    IN IF a.isNull \/ a.err # nil THEN Ret(NilDecimal, a.isNull, a.err, c)
       ELSE IF f.err = nil THEN Ret(DecFromFloat64(f.val), FALSE, nil, f.sc)
       ELSE Ret(NilDecimal, FALSE, f.err, f.sc)

builtinCastJSONAsStringSig_evalString(c, arg, tp, row) ==
    LET a == EvalJSON(arg, row)
    IN IF a.isNull \/ a.err # nil THEN Ret(<<>>, a.isNull, a.err, c)
       ELSE Ret(JSONString(a.val), FALSE, nil, c)

builtinCastJSONAsTimeSig_evalTime(c, arg, tp, row) ==
    LET a == EvalJSON(arg, row)
        u == JSONUnquote(a.val)
        p == ParseTime(u.val, tp.Tp, tp.Decimal)
    IN IF a.isNull \/ a.err # nil THEN Ret(ZeroTime, a.isNull, a.err, c)
       ELSE IF u.err # nil THEN Ret(ZeroTime, FALSE, u.err, c)
       ELSE IF p.err # nil THEN Ret(p.val, FALSE, p.err, c)
       ELSE IF tp.Tp = mysql.TypeDate THEN Ret(TruncateToDate(p.val), a.isNull, nil, c)
       ELSE Ret(p.val, a.isNull, nil, c)

builtinCastJSONAsDurationSig_evalDuration(c, arg, tp, row) ==
    LET a == EvalJSON(arg, row)
        u == JSONUnquote(a.val)
        p == ParseDuration(u.val, tp.Decimal)
        h == HandleTruncate(c, p.err)
    IN IF a.isNull \/ a.err # nil THEN Ret(ZeroDuration, a.isNull, a.err, c)
       ELSE IF u.err # nil THEN Ret(ZeroDuration, FALSE, u.err, c)
       ELSE IF p.err = types.ErrTruncatedWrongVal THEN Ret(p.val, a.isNull, h.err, h.sc)
       ELSE Ret(p.val, a.isNull, p.err, c)

\* ------------------------------------------------------------ dispatchers
\* A faulty setPbCode: every routine is given the code of CastIntAsInt.
Sig_OneCode(name, code) == [sig |-> name, pbCode |-> "ScalarFuncSig_CastIntAsInt"]
\* A built routine: the builtinCastXXAsYYSig chosen and the pbCode set on it.
Sig(name, code) == [sig |-> name, pbCode |-> code]
NoSig == Sig("none", "none")
\* The default branch of the switch: panic("unsupported types.EvalType ...").
PanicSig == Sig("panic", "none")
\* What getFunction returns: the routine, the error, and c.tp as it is left
\* (bf.tp = c.tp shares the descriptor with the caller).
Got(f, err, tp) == [fn |-> f, err |-> err, tp |-> tp]
ErrIncorrectParameterCount == "ErrIncorrectParameterCount"
\* A faulty verifyArgs: only the lower bound of the argument count is tested.
verifyArgs_NoUpperBound(args) == IF Len(args) < 1 THEN ErrIncorrectParameterCount ELSE nil

\* baseFunctionClass{ast.Cast, 1, 1}.verifyArgs(args)
verifyArgs(args) == IF Len(args) # 1 THEN ErrIncorrectParameterCount ELSE nil

\* A faulty dispatcher: the hybrid and binary-literal shortcut is left out.
castAsIntFunctionClass_getFunction_NoShortcut(tp, args) ==
    IF verifyArgs(args) # nil THEN Got(NoSig, verifyArgs(args), tp)
    ELSE LET argTp == EvalType(args[1])
         IN
            CASE argTp = types.ETInt ->
                    Got(Sig("builtinCastIntAsIntSig", "ScalarFuncSig_CastIntAsInt"), nil, tp)
              [] argTp = types.ETReal ->
                    Got(Sig("builtinCastRealAsIntSig", "ScalarFuncSig_CastRealAsInt"), nil, tp)
              [] argTp = types.ETDecimal ->
                    Got(Sig("builtinCastDecimalAsIntSig", "ScalarFuncSig_CastDecimalAsInt"), nil, tp)
              [] argTp \in {types.ETDatetime, types.ETTimestamp} ->
                    Got(Sig("builtinCastTimeAsIntSig", "ScalarFuncSig_CastTimeAsInt"), nil, tp)
              [] argTp = types.ETDuration ->
                    Got(Sig("builtinCastDurationAsIntSig", "ScalarFuncSig_CastDurationAsInt"), nil, tp)
              [] argTp = types.ETJson ->
                    Got(Sig("builtinCastJSONAsIntSig", "ScalarFuncSig_CastJsonAsInt"), nil, tp)
              [] argTp = types.ETString ->
                    Got(Sig("builtinCastStringAsIntSig", "ScalarFuncSig_CastStringAsInt"), nil, tp)
              [] OTHER -> Got(PanicSig, nil, tp)

castAsIntFunctionClass_getFunction(tp, args) ==
    IF verifyArgs(args) # nil THEN Got(NoSig, verifyArgs(args), tp)
    ELSE IF Hybrid(args[1]) \/ IsBinaryLiteral(args[1])
    THEN Got(Sig("builtinCastIntAsIntSig", "ScalarFuncSig_CastIntAsInt"), nil, tp)
    ELSE LET argTp == EvalType(args[1])
         IN
            CASE argTp = types.ETInt ->
                    Got(Sig("builtinCastIntAsIntSig", "ScalarFuncSig_CastIntAsInt"), nil, tp)
              [] argTp = types.ETReal ->
                    Got(Sig("builtinCastRealAsIntSig", "ScalarFuncSig_CastRealAsInt"), nil, tp)
              [] argTp = types.ETDecimal ->
                    Got(Sig("builtinCastDecimalAsIntSig", "ScalarFuncSig_CastDecimalAsInt"), nil, tp)
              [] argTp \in {types.ETDatetime, types.ETTimestamp} ->
                    Got(Sig("builtinCastTimeAsIntSig", "ScalarFuncSig_CastTimeAsInt"), nil, tp)
              [] argTp = types.ETDuration ->
                    Got(Sig("builtinCastDurationAsIntSig", "ScalarFuncSig_CastDurationAsInt"), nil, tp)
              [] argTp = types.ETJson ->
                    Got(Sig("builtinCastJSONAsIntSig", "ScalarFuncSig_CastJsonAsInt"), nil, tp)
              [] argTp = types.ETString ->
                    Got(Sig("builtinCastStringAsIntSig", "ScalarFuncSig_CastStringAsInt"), nil, tp)
              [] OTHER -> Got(PanicSig, nil, tp)

\* A faulty dispatcher: the hybrid test is made before the binary-literal test.
castAsRealFunctionClass_getFunction_HybridFirst(tp, args) ==
    IF verifyArgs(args) # nil THEN Got(NoSig, verifyArgs(args), tp)
    ELSE IF IsBinaryLiteral(args[1]) /\ ~Hybrid(args[1])
    THEN Got(Sig("builtinCastRealAsRealSig", "ScalarFuncSig_CastRealAsReal"), nil, tp)
    ELSE LET argTp == IF Hybrid(args[1]) THEN types.ETInt ELSE EvalType(args[1])
         IN
            CASE argTp = types.ETInt ->
                    Got(Sig("builtinCastIntAsRealSig", "ScalarFuncSig_CastIntAsReal"), nil, tp)
              [] argTp = types.ETReal ->
                    Got(Sig("builtinCastRealAsRealSig", "ScalarFuncSig_CastRealAsReal"), nil, tp)
              [] argTp = types.ETDecimal ->
                    Got(Sig("builtinCastDecimalAsRealSig", "ScalarFuncSig_CastDecimalAsReal"), nil, tp)
              [] argTp \in {types.ETDatetime, types.ETTimestamp} ->
                    Got(Sig("builtinCastTimeAsRealSig", "ScalarFuncSig_CastTimeAsReal"), nil, tp)
              [] argTp = types.ETDuration ->
                    Got(Sig("builtinCastDurationAsRealSig", "ScalarFuncSig_CastDurationAsReal"), nil, tp)
              [] argTp = types.ETJson ->
                    Got(Sig("builtinCastJSONAsRealSig", "ScalarFuncSig_CastJsonAsReal"), nil, tp)
              [] argTp = types.ETString ->
                    Got(Sig("builtinCastStringAsRealSig", "ScalarFuncSig_CastStringAsReal"), nil, tp)
              [] OTHER -> Got(PanicSig, nil, tp)

castAsRealFunctionClass_getFunction(tp, args) ==
    IF verifyArgs(args) # nil THEN Got(NoSig, verifyArgs(args), tp)
    ELSE IF IsBinaryLiteral(args[1])
    THEN Got(Sig("builtinCastRealAsRealSig", "ScalarFuncSig_CastRealAsReal"), nil, tp)
    ELSE LET argTp == IF Hybrid(args[1]) THEN types.ETInt ELSE EvalType(args[1])
         IN
            CASE argTp = types.ETInt ->
                    Got(Sig("builtinCastIntAsRealSig", "ScalarFuncSig_CastIntAsReal"), nil, tp)
              [] argTp = types.ETReal ->
                    Got(Sig("builtinCastRealAsRealSig", "ScalarFuncSig_CastRealAsReal"), nil, tp)
              [] argTp = types.ETDecimal ->
                    Got(Sig("builtinCastDecimalAsRealSig", "ScalarFuncSig_CastDecimalAsReal"), nil, tp)
              [] argTp \in {types.ETDatetime, types.ETTimestamp} ->
                    Got(Sig("builtinCastTimeAsRealSig", "ScalarFuncSig_CastTimeAsReal"), nil, tp)
              [] argTp = types.ETDuration ->
                    Got(Sig("builtinCastDurationAsRealSig", "ScalarFuncSig_CastDurationAsReal"), nil, tp)
              [] argTp = types.ETJson ->
                    Got(Sig("builtinCastJSONAsRealSig", "ScalarFuncSig_CastJsonAsReal"), nil, tp)
              [] argTp = types.ETString ->
                    Got(Sig("builtinCastStringAsRealSig", "ScalarFuncSig_CastStringAsReal"), nil, tp)
              [] OTHER -> Got(PanicSig, nil, tp)

castAsDecimalFunctionClass_getFunction(tp, args) ==
    IF verifyArgs(args) # nil THEN Got(NoSig, verifyArgs(args), tp)
    ELSE IF IsBinaryLiteral(args[1])
    THEN Got(Sig("builtinCastDecimalAsDecimalSig", "ScalarFuncSig_CastDecimalAsDecimal"), nil, tp)
    ELSE LET argTp == IF Hybrid(args[1]) THEN types.ETInt ELSE EvalType(args[1])
         IN
            CASE argTp = types.ETInt ->
                    Got(Sig("builtinCastIntAsDecimalSig", "ScalarFuncSig_CastIntAsDecimal"), nil, tp)
              [] argTp = types.ETReal ->
                    Got(Sig("builtinCastRealAsDecimalSig", "ScalarFuncSig_CastRealAsDecimal"), nil, tp)
              [] argTp = types.ETDecimal ->
                    Got(Sig("builtinCastDecimalAsDecimalSig", "ScalarFuncSig_CastDecimalAsDecimal"), nil, tp)
              [] argTp \in {types.ETDatetime, types.ETTimestamp} ->
                    Got(Sig("builtinCastTimeAsDecimalSig", "ScalarFuncSig_CastTimeAsDecimal"), nil, tp)
              [] argTp = types.ETDuration ->
                    Got(Sig("builtinCastDurationAsDecimalSig", "ScalarFuncSig_CastDurationAsDecimal"), nil, tp)
              [] argTp = types.ETJson ->
                    Got(Sig("builtinCastJSONAsDecimalSig", "ScalarFuncSig_CastJsonAsDecimal"), nil, tp)
              [] argTp = types.ETString ->
                    Got(Sig("builtinCastStringAsDecimalSig", "ScalarFuncSig_CastStringAsDecimal"), nil, tp)
              [] OTHER -> Got(PanicSig, nil, tp)

castAsStringFunctionClass_getFunction(tp, args) ==
    IF verifyArgs(args) # nil THEN Got(NoSig, verifyArgs(args), tp)
    ELSE IF Hybrid(args[1]) \/ IsBinaryLiteral(args[1])
    THEN Got(Sig("builtinCastStringAsStringSig", "ScalarFuncSig_CastStringAsString"), nil, tp)
    ELSE LET argTp == EvalType(args[1])
         IN
            CASE argTp = types.ETInt ->
                    Got(Sig("builtinCastIntAsStringSig", "ScalarFuncSig_CastIntAsString"), nil, tp)
              [] argTp = types.ETReal ->
                    Got(Sig("builtinCastRealAsStringSig", "ScalarFuncSig_CastRealAsString"), nil, tp)
              [] argTp = types.ETDecimal ->
                    Got(Sig("builtinCastDecimalAsStringSig", "ScalarFuncSig_CastDecimalAsString"), nil, tp)
              [] argTp \in {types.ETDatetime, types.ETTimestamp} ->
                    Got(Sig("builtinCastTimeAsStringSig", "ScalarFuncSig_CastTimeAsString"), nil, tp)
              [] argTp = types.ETDuration ->
                    Got(Sig("builtinCastDurationAsStringSig", "ScalarFuncSig_CastDurationAsString"), nil, tp)
              [] argTp = types.ETJson ->
                    Got(Sig("builtinCastJSONAsStringSig", "ScalarFuncSig_CastJsonAsString"), nil, tp)
              [] argTp = types.ETString ->
                    Got(Sig("builtinCastStringAsStringSig", "ScalarFuncSig_CastStringAsString"), nil, tp)
              [] OTHER -> Got(PanicSig, nil, tp)

\* A faulty dispatcher: a hybrid source is routed as an Integer source.
castAsTimeFunctionClass_getFunction_HybridAsInt(tp, args) ==
    IF verifyArgs(args) # nil THEN Got(NoSig, verifyArgs(args), tp)
    ELSE LET argTp == IF Hybrid(args[1]) THEN types.ETInt ELSE EvalType(args[1])
         IN
            CASE argTp = types.ETInt ->
                    Got(Sig("builtinCastIntAsTimeSig", "ScalarFuncSig_CastIntAsTime"), nil, tp)
              [] argTp = types.ETReal ->
                    Got(Sig("builtinCastRealAsTimeSig", "ScalarFuncSig_CastRealAsTime"), nil, tp)
              [] argTp = types.ETDecimal ->
                    Got(Sig("builtinCastDecimalAsTimeSig", "ScalarFuncSig_CastDecimalAsTime"), nil, tp)
              [] argTp \in {types.ETDatetime, types.ETTimestamp} ->
                    Got(Sig("builtinCastTimeAsTimeSig", "ScalarFuncSig_CastTimeAsTime"), nil, tp)
              [] argTp = types.ETDuration ->
                    Got(Sig("builtinCastDurationAsTimeSig", "ScalarFuncSig_CastDurationAsTime"), nil, tp)
              [] argTp = types.ETJson ->
                    Got(Sig("builtinCastJSONAsTimeSig", "ScalarFuncSig_CastJsonAsTime"), nil, tp)
              [] argTp = types.ETString ->
                    Got(Sig("builtinCastStringAsTimeSig", "ScalarFuncSig_CastStringAsTime"), nil, tp)
              [] OTHER -> Got(PanicSig, nil, tp)

castAsTimeFunctionClass_getFunction(tp, args) ==
    IF verifyArgs(args) # nil THEN Got(NoSig, verifyArgs(args), tp)
    ELSE LET argTp == EvalType(args[1])
         IN
            CASE argTp = types.ETInt ->
                    Got(Sig("builtinCastIntAsTimeSig", "ScalarFuncSig_CastIntAsTime"), nil, tp)
              [] argTp = types.ETReal ->
                    Got(Sig("builtinCastRealAsTimeSig", "ScalarFuncSig_CastRealAsTime"), nil, tp)
              [] argTp = types.ETDecimal ->
                    Got(Sig("builtinCastDecimalAsTimeSig", "ScalarFuncSig_CastDecimalAsTime"), nil, tp)
              [] argTp \in {types.ETDatetime, types.ETTimestamp} ->
                    Got(Sig("builtinCastTimeAsTimeSig", "ScalarFuncSig_CastTimeAsTime"), nil, tp)
              [] argTp = types.ETDuration ->
                    Got(Sig("builtinCastDurationAsTimeSig", "ScalarFuncSig_CastDurationAsTime"), nil, tp)
              [] argTp = types.ETJson ->
                    Got(Sig("builtinCastJSONAsTimeSig", "ScalarFuncSig_CastJsonAsTime"), nil, tp)
              [] argTp = types.ETString ->
                    Got(Sig("builtinCastStringAsTimeSig", "ScalarFuncSig_CastStringAsTime"), nil, tp)
              [] OTHER -> Got(PanicSig, nil, tp)

\* A faulty dispatcher: the JSON case of the Duration class picks the DateTime
\* routine of the JSON source.
castAsDurationFunctionClass_getFunction_Misrouted(tp, args) ==
    IF verifyArgs(args) # nil THEN Got(NoSig, verifyArgs(args), tp)
    ELSE LET argTp == EvalType(args[1])
         IN
            CASE argTp = types.ETInt ->
                    Got(Sig("builtinCastIntAsDurationSig", "ScalarFuncSig_CastIntAsDuration"), nil, tp)
              [] argTp = types.ETReal ->
                    Got(Sig("builtinCastRealAsDurationSig", "ScalarFuncSig_CastRealAsDuration"), nil, tp)
              [] argTp = types.ETDecimal ->
                    Got(Sig("builtinCastDecimalAsDurationSig", "ScalarFuncSig_CastDecimalAsDuration"), nil, tp)
              [] argTp \in {types.ETDatetime, types.ETTimestamp} ->
                    Got(Sig("builtinCastTimeAsDurationSig", "ScalarFuncSig_CastTimeAsDuration"), nil, tp)
              [] argTp = types.ETDuration ->
                    Got(Sig("builtinCastDurationAsDurationSig", "ScalarFuncSig_CastDurationAsDuration"), nil, tp)
              [] argTp = types.ETJson ->
                    Got(Sig("builtinCastJSONAsTimeSig", "ScalarFuncSig_CastJsonAsTime"), nil, tp)
              [] argTp = types.ETString ->
                    Got(Sig("builtinCastStringAsDurationSig", "ScalarFuncSig_CastStringAsDuration"), nil, tp)
              [] OTHER -> Got(PanicSig, nil, tp)

castAsDurationFunctionClass_getFunction(tp, args) ==
    IF verifyArgs(args) # nil THEN Got(NoSig, verifyArgs(args), tp)
    ELSE LET argTp == EvalType(args[1])
         IN
            CASE argTp = types.ETInt ->
                    Got(Sig("builtinCastIntAsDurationSig", "ScalarFuncSig_CastIntAsDuration"), nil, tp)
              [] argTp = types.ETReal ->
                    Got(Sig("builtinCastRealAsDurationSig", "ScalarFuncSig_CastRealAsDuration"), nil, tp)
              [] argTp = types.ETDecimal ->
                    Got(Sig("builtinCastDecimalAsDurationSig", "ScalarFuncSig_CastDecimalAsDuration"), nil, tp)
              [] argTp \in {types.ETDatetime, types.ETTimestamp} ->
                    Got(Sig("builtinCastTimeAsDurationSig", "ScalarFuncSig_CastTimeAsDuration"), nil, tp)
              [] argTp = types.ETDuration ->
                    Got(Sig("builtinCastDurationAsDurationSig", "ScalarFuncSig_CastDurationAsDuration"), nil, tp)
              [] argTp = types.ETJson ->
                    Got(Sig("builtinCastJSONAsDurationSig", "ScalarFuncSig_CastJsonAsDuration"), nil, tp)
              [] argTp = types.ETString ->
                    Got(Sig("builtinCastStringAsDurationSig", "ScalarFuncSig_CastStringAsDuration"), nil, tp)
              [] OTHER -> Got(PanicSig, nil, tp)

castAsJSONFunctionClass_getFunction(tp, args) ==
    IF verifyArgs(args) # nil THEN Got(NoSig, verifyArgs(args), tp)
    ELSE LET argTp == EvalType(args[1])
         IN
            CASE argTp = types.ETInt ->
                    Got(Sig("builtinCastIntAsJSONSig", "ScalarFuncSig_CastIntAsJson"), nil, tp)
              [] argTp = types.ETReal ->
                    Got(Sig("builtinCastRealAsJSONSig", "ScalarFuncSig_CastRealAsJson"), nil, tp)
              [] argTp = types.ETDecimal ->
                    Got(Sig("builtinCastDecimalAsJSONSig", "ScalarFuncSig_CastDecimalAsJson"), nil, tp)
              [] argTp \in {types.ETDatetime, types.ETTimestamp} ->
                    Got(Sig("builtinCastTimeAsJSONSig", "ScalarFuncSig_CastTimeAsJson"), nil, tp)
              [] argTp = types.ETDuration ->
                    Got(Sig("builtinCastDurationAsJSONSig", "ScalarFuncSig_CastDurationAsJson"), nil, tp)
              [] argTp = types.ETJson ->
                    Got(Sig("builtinCastJSONAsJSONSig", "ScalarFuncSig_CastJsonAsJson"), nil, tp)
              [] argTp = types.ETString ->
                    Got(Sig("builtinCastStringAsJSONSig", "ScalarFuncSig_CastStringAsJson"), nil,
                        [tp EXCEPT !.Flag = @ \cup {mysql.ParseToJSONFlag}])
              [] OTHER -> Got(PanicSig, nil, tp)

\* ------------------------------------------------------- builtinFunc methods
\* f.evalXX(row): the method of the routine f; a routine that does not define
\* evalXX inherits baseBuiltinFunc.evalXX, which panics.
ErrPanic == "panic"

evalInt(f, c, arg, tp, row) ==
    CASE f.sig = "builtinCastIntAsIntSig" ->
            builtinCastIntAsIntSig_evalInt(c, arg, tp, row)
      [] f.sig = "builtinCastRealAsIntSig" ->
            builtinCastRealAsIntSig_evalInt(c, arg, tp, row)
      [] f.sig = "builtinCastDecimalAsIntSig" ->
            builtinCastDecimalAsIntSig_evalInt(c, arg, tp, row)
      [] f.sig = "builtinCastStringAsIntSig" ->
            builtinCastStringAsIntSig_evalInt(c, arg, tp, row)
      [] f.sig = "builtinCastTimeAsIntSig" ->
            builtinCastTimeAsIntSig_evalInt(c, arg, tp, row)
      [] f.sig = "builtinCastDurationAsIntSig" ->
            builtinCastDurationAsIntSig_evalInt(c, arg, tp, row)
      [] f.sig = "builtinCastJSONAsIntSig" ->
            builtinCastJSONAsIntSig_evalInt(c, arg, tp, row)
      [] OTHER -> Ret({}, FALSE, ErrPanic, c)

evalReal(f, c, arg, tp, row) ==
    CASE f.sig = "builtinCastIntAsRealSig" ->
            builtinCastIntAsRealSig_evalReal(c, arg, tp, row)
      [] f.sig = "builtinCastRealAsRealSig" ->
            builtinCastRealAsRealSig_evalReal(c, arg, tp, row)
      [] f.sig = "builtinCastDecimalAsRealSig" ->
            builtinCastDecimalAsRealSig_evalReal(c, arg, tp, row)
      [] f.sig = "builtinCastStringAsRealSig" ->
            builtinCastStringAsRealSig_evalReal(c, arg, tp, row)
      [] f.sig = "builtinCastTimeAsRealSig" ->
            builtinCastTimeAsRealSig_evalReal(c, arg, tp, row)
      [] f.sig = "builtinCastDurationAsRealSig" ->
            builtinCastDurationAsRealSig_evalReal(c, arg, tp, row)
      [] f.sig = "builtinCastJSONAsRealSig" ->
            builtinCastJSONAsRealSig_evalReal(c, arg, tp, row)
      [] OTHER -> Ret({}, FALSE, ErrPanic, c)

evalDecimal(f, c, arg, tp, row) ==
    CASE f.sig = "builtinCastIntAsDecimalSig" ->
            builtinCastIntAsDecimalSig_evalDecimal(c, arg, tp, row)
      [] f.sig = "builtinCastRealAsDecimalSig" ->
            builtinCastRealAsDecimalSig_evalDecimal(c, arg, tp, row)
      [] f.sig = "builtinCastDecimalAsDecimalSig" ->
            builtinCastDecimalAsDecimalSig_evalDecimal(c, arg, tp, row)
      [] f.sig = "builtinCastStringAsDecimalSig" ->
            builtinCastStringAsDecimalSig_evalDecimal(c, arg, tp, row)
      [] f.sig = "builtinCastTimeAsDecimalSig" ->
            builtinCastTimeAsDecimalSig_evalDecimal(c, arg, tp, row)
      [] f.sig = "builtinCastDurationAsDecimalSig" ->
            builtinCastDurationAsDecimalSig_evalDecimal(c, arg, tp, row)
      [] f.sig = "builtinCastJSONAsDecimalSig" ->
            builtinCastJSONAsDecimalSig_evalDecimal(c, arg, tp, row)
      [] OTHER -> Ret({}, FALSE, ErrPanic, c)

evalString(f, c, arg, tp, row) ==
    CASE f.sig = "builtinCastIntAsStringSig" ->
            builtinCastIntAsStringSig_evalString(c, arg, tp, row)
      [] f.sig = "builtinCastRealAsStringSig" ->
            builtinCastRealAsStringSig_evalString(c, arg, tp, row)
      [] f.sig = "builtinCastDecimalAsStringSig" ->
            builtinCastDecimalAsStringSig_evalString(c, arg, tp, row)
      [] f.sig = "builtinCastStringAsStringSig" ->
            builtinCastStringAsStringSig_evalString(c, arg, tp, row)
      [] f.sig = "builtinCastTimeAsStringSig" ->
            builtinCastTimeAsStringSig_evalString(c, arg, tp, row)
      [] f.sig = "builtinCastDurationAsStringSig" ->
            builtinCastDurationAsStringSig_evalString(c, arg, tp, row)
      [] f.sig = "builtinCastJSONAsStringSig" ->
            builtinCastJSONAsStringSig_evalString(c, arg, tp, row)
      [] OTHER -> Ret({}, FALSE, ErrPanic, c)

evalTime(f, c, arg, tp, row) ==
    CASE f.sig = "builtinCastIntAsTimeSig" ->
            builtinCastIntAsTimeSig_evalTime(c, arg, tp, row)
      [] f.sig = "builtinCastRealAsTimeSig" ->
            builtinCastRealAsTimeSig_evalTime(c, arg, tp, row)
      [] f.sig = "builtinCastDecimalAsTimeSig" ->
            builtinCastDecimalAsTimeSig_evalTime(c, arg, tp, row)
      [] f.sig = "builtinCastStringAsTimeSig" ->
            builtinCastStringAsTimeSig_evalTime(c, arg, tp, row)
      [] f.sig = "builtinCastTimeAsTimeSig" ->
            builtinCastTimeAsTimeSig_evalTime(c, arg, tp, row)
      [] f.sig = "builtinCastDurationAsTimeSig" ->
            builtinCastDurationAsTimeSig_evalTime(c, arg, tp, row)
      [] f.sig = "builtinCastJSONAsTimeSig" ->
            builtinCastJSONAsTimeSig_evalTime(c, arg, tp, row)
      [] OTHER -> Ret({}, FALSE, ErrPanic, c)

evalDuration(f, c, arg, tp, row) ==
    CASE f.sig = "builtinCastIntAsDurationSig" ->
            builtinCastIntAsDurationSig_evalDuration(c, arg, tp, row)
      [] f.sig = "builtinCastRealAsDurationSig" ->
            builtinCastRealAsDurationSig_evalDuration(c, arg, tp, row)
      [] f.sig = "builtinCastDecimalAsDurationSig" ->
            builtinCastDecimalAsDurationSig_evalDuration(c, arg, tp, row)
      [] f.sig = "builtinCastStringAsDurationSig" ->
            builtinCastStringAsDurationSig_evalDuration(c, arg, tp, row)
      [] f.sig = "builtinCastTimeAsDurationSig" ->
            builtinCastTimeAsDurationSig_evalDuration(c, arg, tp, row)
      [] f.sig = "builtinCastDurationAsDurationSig" ->
            builtinCastDurationAsDurationSig_evalDuration(c, arg, tp, row)
      [] f.sig = "builtinCastJSONAsDurationSig" ->
            builtinCastJSONAsDurationSig_evalDuration(c, arg, tp, row)
      [] OTHER -> Ret({}, FALSE, ErrPanic, c)

evalJSON(f, c, arg, tp, row) ==
    CASE f.sig = "builtinCastIntAsJSONSig" ->
            builtinCastIntAsJSONSig_evalJSON(c, arg, tp, row)
      [] f.sig = "builtinCastRealAsJSONSig" ->
            builtinCastRealAsJSONSig_evalJSON(c, arg, tp, row)
      [] f.sig = "builtinCastDecimalAsJSONSig" ->
            builtinCastDecimalAsJSONSig_evalJSON(c, arg, tp, row)
      [] f.sig = "builtinCastStringAsJSONSig" ->
            builtinCastStringAsJSONSig_evalJSON(c, arg, tp, row)
      [] f.sig = "builtinCastTimeAsJSONSig" ->
            builtinCastTimeAsJSONSig_evalJSON(c, arg, tp, row)
      [] f.sig = "builtinCastDurationAsJSONSig" ->
            builtinCastDurationAsJSONSig_evalJSON(c, arg, tp, row)
      [] f.sig = "builtinCastJSONAsJSONSig" ->
            builtinCastJSONAsJSONSig_evalJSON(c, arg, tp, row)
      [] OTHER -> Ret({}, FALSE, ErrPanic, c)

\* types.FieldType, and the descriptor of no cast.
FieldType(t, flen, decimal, flag) == [Tp |-> t, Flen |-> flen, Decimal |-> decimal, Flag |-> flag]
NoType == FieldType("none", 0, 0, {})

\* Constant.  The constants among the expressions cast are the binary
\* literals.
IsConstant(e) == e.BinaryLiteral

\* FoldConstant(expr): a ScalarFunction over a constant argument is replaced
\* by the Constant holding its value; any other expression is returned as is.
FoldConstant(x) ==
    IF x.Kind = "ScalarFunction" /\ IsConstant(x.Arg) THEN [x EXCEPT !.Kind = "Constant"] ELSE x

\* The Expression a builder returns: its kind, the routine and the descriptor
\* of a ScalarFunction, its argument, and the error the dispatcher returned.
Node(kind, f, tp, e, err) ==
    [Kind |-> kind, Function |-> f, RetType |-> tp, Arg |-> e, err |-> err]

\* fc.getFunction(ctx, args), fc being the castAsXXFunctionClass{..., tp} of
\* tp.EvalType().
getFunction(tp, args) ==
    CASE EvalType(tp) = types.ETInt -> castAsIntFunctionClass_getFunction(tp, args)
      [] EvalType(tp) = types.ETDecimal -> castAsDecimalFunctionClass_getFunction(tp, args)
      [] EvalType(tp) = types.ETReal -> castAsRealFunctionClass_getFunction(tp, args)
      [] EvalType(tp) \in {types.ETDatetime, types.ETTimestamp} ->
            castAsTimeFunctionClass_getFunction(tp, args)
      [] EvalType(tp) = types.ETDuration -> castAsDurationFunctionClass_getFunction(tp, args)
      [] EvalType(tp) = types.ETJson -> castAsJSONFunctionClass_getFunction(tp, args)
      [] EvalType(tp) = types.ETString -> castAsStringFunctionClass_getFunction(tp, args)

\* A faulty BuildCastFunction: the cast is folded whatever the target class.
BuildCastFunction_FoldAll(e, tp) ==
    LET built(g) == FoldConstant(Node("ScalarFunction", g.fn, g.tp, e, g.err))
    IN built(getFunction(tp, <<e>>))

\* BuildCastFunction(ctx, expr, tp): the dispatcher of tp.EvalType() run on
\* the one argument expr; the error is logged, the ScalarFunction holds the
\* routine and tp, and is folded unless the target class is Json.
BuildCastFunction(e, tp) ==
    LET fold(res) == IF EvalType(tp) # types.ETJson THEN FoldConstant(res) ELSE res
        built(g) == fold(Node("ScalarFunction", g.fn, g.tp, e, g.err))
    IN built(getFunction(tp, <<e>>))

\* types.NewFieldType(tp) and types.SetBinChsClnFlag(ft).
NewFieldType(t) == FieldType(t, UnspecifiedLength, UnspecifiedLength, {})
SetBinChsClnFlag(ft) == [ft EXCEPT !.Flag = @ \cup {mysql.BinaryFlag}]

\* The wrappers: the expression itself (kind "Expression", no routine), or
\* the cast BuildCastFunction builds for the descriptor made here.
Itself(e, tp) == Node("Expression", NoSig, tp, e, nil)

WrapWithCastAsInt(e) ==
    IF EvalType(e) = types.ETInt THEN Itself(e, NoType)
    ELSE BuildCastFunction(
             e, SetBinChsClnFlag([NewFieldType(mysql.TypeLonglong) EXCEPT !.Flen = e.Flen, !.Decimal = 0]))

WrapWithCastAsReal(e) ==
    IF EvalType(e) = types.ETReal THEN Itself(e, NoType)
    ELSE BuildCastFunction(
             e, SetBinChsClnFlag([NewFieldType(mysql.TypeDouble) EXCEPT
                                     !.Flen = mysql.MaxRealWidth, !.Decimal = UnspecifiedLength]))

WrapWithCastAsDecimal(e) ==
    IF EvalType(e) = types.ETDecimal THEN Itself(e, NoType)
    ELSE BuildCastFunction(
             e, SetBinChsClnFlag([NewFieldType(mysql.TypeNewDecimal) EXCEPT
                                     !.Flen = e.Flen, !.Decimal = UnspecifiedLength]))

WrapWithCastAsString(e) ==
    IF EvalType(e) = types.ETString THEN Itself(e, NoType)
    ELSE BuildCastFunction(
             e, [NewFieldType(mysql.TypeVarString) EXCEPT !.Flen = e.Flen, !.Decimal = UnspecifiedLength])

\* A faulty wrapper: the precision is the maximum whatever the source.
WrapWithCastAsTime_MaxFsp(e, tp) ==
    LET exprTp == e.Tp
        decimal == MaxFsp
        flen == CASE tp.Tp = mysql.TypeDate -> mysql.MaxDateWidth
                  [] tp.Tp \in {mysql.TypeDatetime, mysql.TypeTimestamp} ->
                        mysql.MaxDatetimeWidthNoFsp + 1 + decimal
                  [] OTHER -> tp.Flen
    IN IF tp.Tp = exprTp THEN Itself(e, tp)
       ELSE IF exprTp \in {mysql.TypeDate, mysql.TypeTimestamp} /\ tp.Tp = mysql.TypeDatetime
       THEN Itself(e, tp)
       ELSE BuildCastFunction(e, SetBinChsClnFlag([tp EXCEPT !.Decimal = decimal, !.Flen = flen]))

\* WrapWithCastAsTime(ctx, expr, tp) writes the caller's tp.
WrapWithCastAsTime(e, tp) ==
    LET exprTp == e.Tp
        decimal == IF exprTp \in {mysql.TypeDatetime, mysql.TypeTimestamp, mysql.TypeDate, mysql.TypeDuration}
                   THEN e.Decimal ELSE MaxFsp
        flen == CASE tp.Tp = mysql.TypeDate -> mysql.MaxDateWidth
                  [] tp.Tp \in {mysql.TypeDatetime, mysql.TypeTimestamp} ->
                        IF decimal > 0 THEN mysql.MaxDatetimeWidthNoFsp + 1 + decimal
                        ELSE mysql.MaxDatetimeWidthNoFsp
                  [] OTHER -> tp.Flen
    IN IF tp.Tp = exprTp THEN Itself(e, tp)
       ELSE IF exprTp \in {mysql.TypeDate, mysql.TypeTimestamp} /\ tp.Tp = mysql.TypeDatetime
       THEN Itself(e, tp)
       ELSE BuildCastFunction(e, SetBinChsClnFlag([tp EXCEPT !.Decimal = decimal, !.Flen = flen]))

WrapWithCastAsDuration(e) ==
    LET decimal == IF e.Tp \in {mysql.TypeDatetime, mysql.TypeTimestamp, mysql.TypeDate}
                   THEN e.Decimal ELSE MaxFsp
        flen == IF decimal > 0 THEN mysql.MaxDurationWidthNoFsp + 1 + decimal
                ELSE mysql.MaxDurationWidthNoFsp
    IN IF e.Tp = mysql.TypeDuration THEN Itself(e, NoType)
       ELSE BuildCastFunction(
                e, [NewFieldType(mysql.TypeDuration) EXCEPT !.Decimal = decimal, !.Flen = flen])

JSONFlen == 12582912
\* A faulty wrapper: an expression of type JSON is returned as it is, whatever
\* its flags.
WrapWithCastAsJSON_AnyJSON(e) ==
    IF e.Tp = mysql.TypeJSON THEN Itself(e, NoType)
    ELSE BuildCastFunction(
             e, FieldType(mysql.TypeJSON, JSONFlen, 0, {mysql.BinaryFlag}))

WrapWithCastAsJSON(e) ==
    IF e.Tp = mysql.TypeJSON /\ ~HasParseToJSONFlag(e.Flag) THEN Itself(e, NoType)
    ELSE BuildCastFunction(
             e, FieldType(mysql.TypeJSON, JSONFlen, 0, {mysql.BinaryFlag}))

\* ---------------------------------------------------------------- inputs
\* The argument expressions cast: its FieldType and whether it is a binary
\* literal constant.  A JSON expression with the parse-to-JSON flag is what a
\* cast of a string to JSON returns.
Expr(t, flag, bin) ==
    [Tp |-> t,
     Flen |-> UnspecifiedLength,
     Decimal |-> IF t \in {mysql.TypeDate, mysql.TypeDatetime, mysql.TypeTimestamp, mysql.TypeDuration}
                 THEN DefaultFsp ELSE UnspecifiedLength,
     Flag |-> flag,
     BinaryLiteral |-> bin]
NoExpr == Expr("none", {}, FALSE)
SourceExprs ==
    { Expr(mysql.TypeLonglong, fl, FALSE) : fl \in SUBSET {mysql.UnsignedFlag, mysql.IsBooleanFlag} }
    \cup { Expr(t, {}, FALSE) :
             t \in {mysql.TypeDouble, mysql.TypeNewDecimal, mysql.TypeVarString, mysql.TypeDate, mysql.TypeDatetime,
                    mysql.TypeTimestamp, mysql.TypeDuration, mysql.TypeJSON, mysql.TypeEnum, mysql.TypeSet, mysql.TypeBit} }
    \cup { Expr(mysql.TypeVarString, {mysql.BinaryFlag}, TRUE), Expr(mysql.TypeBit, {}, TRUE),
           Expr(mysql.TypeJSON, {mysql.ParseToJSONFlag}, FALSE) }

\* Temporal arguments with a fractional-seconds precision of their own.
FspExprs ==
    { [Expr(t, {}, FALSE) EXCEPT !.Decimal = 1] :
        t \in {mysql.TypeDate, mysql.TypeDatetime, mysql.TypeTimestamp, mysql.TypeDuration} }

\* The target descriptors cast to.
TargetTypes ==
    { FieldType(mysql.TypeLonglong, UnspecifiedLength, 0, fl) : fl \in {{}, {mysql.UnsignedFlag}} }
    \cup { FieldType(mysql.TypeDouble, UnspecifiedLength, d, {}) : d \in {UnspecifiedLength, 1} }
    \cup { FieldType(mysql.TypeNewDecimal, UnspecifiedLength, UnspecifiedLength, {}),
           FieldType(mysql.TypeNewDecimal, 3, 1, {}), FieldType(mysql.TypeNewDecimal, 2, 0, {}) }
    \cup { FieldType(mysql.TypeVarString, l, UnspecifiedLength, {}) : l \in {UnspecifiedLength, 1, 3} }
    \cup { FieldType(t, UnspecifiedLength, fsp, {}) :
             t \in {mysql.TypeDate, mysql.TypeDatetime, mysql.TypeTimestamp, mysql.TypeDuration}, fsp \in {0, 1} }
    \cup { FieldType(mysql.TypeJSON, UnspecifiedLength, 0, {mysql.BinaryFlag}) }

\* The descriptors WrapWithCastAsTime is called with, and the argument lists
\* a dispatcher is called on.
TimeTargets ==
    { FieldType(t, UnspecifiedLength, DefaultFsp, {}) :
        t \in {mysql.TypeDate, mysql.TypeDatetime, mysql.TypeTimestamp} }
ArgLists ==
    { <<>>, <<Expr(mysql.TypeVarString, {}, FALSE)>>, <<Expr(mysql.TypeLonglong, {}, FALSE)>>,
      <<Expr(mysql.TypeLonglong, {}, FALSE), Expr(mysql.TypeVarString, {}, FALSE)>> }

\* The integers evaluated: a dense range, the bounds of the width, and the
\* numbers that matter as a date (YYMMDD) or a duration (hhmmss).
IntVals ==
    (-SmallInt..SmallInt)
    \cup {MinInt64, MaxInt64, 101, 6070, 123000, 230615, TimeMaxValue + 1, -(TimeMaxValue + 1)}

Digits14 == <<2, 0, 2, 3, 0, 6, 1, 5, 1, 2, 3, 0, 0, 0>>
DecimalVals ==
    { [neg |-> n, int |-> StripZeros(NatDigits(k)), frac |-> <<5>>] :
        n \in BOOLEAN, k \in 0..SmallInt }
    \cup { Dec(FALSE, <<>>, <<>>), Dec(FALSE, <<2>>, <<4>>), Dec(FALSE, <<2>>, <<6>>),
           Dec(FALSE, <<1>>, <<2, 5>>), Dec(FALSE, <<9, 9>>, <<9, 9>>), Dec(TRUE, <<1>>, <<>>),
           Dec(FALSE, <<1, 2, 3, 0, 0, 0>>, <<>>), Dec(FALSE, <<1, 2>>, <<5>>),
           Dec(FALSE, Digits14, <<>>), Dec(FALSE, Digits14, <<5>>),
           Dec(FALSE, NatDigits(MaxInt64), <<5>>), Dec(FALSE, NatDigits(MaxInt64 + 1), <<>>),
           Dec(FALSE, NatDigits(MaxUint64), <<5>>), Dec(FALSE, NatDigits(MaxUint64), <<4>>),
           Dec(TRUE, NatDigits(-MinInt64), <<6>>) }
RealVals ==
    { Dec(FALSE, <<>>, <<>>), Dec(FALSE, <<>>, <<5>>), Dec(FALSE, <<1>>, <<5>>),
      Dec(FALSE, <<2>>, <<5>>), Dec(TRUE, <<2>>, <<5>>), Dec(TRUE, <<1>>, <<>>),
      Dec(FALSE, <<1>>, <<2, 5>>), Dec(FALSE, <<1, 2>>, <<5>>),
      Dec(FALSE, <<1, 2, 3, 0, 0, 0>>, <<>>), Dec(FALSE, Digits14, <<>>),
      Dec(FALSE, NatDigits(MaxInt64 + 1), <<>>), Dec(FALSE, NatDigits(MaxUint64 + 1), <<>>),
      Dec(TRUE, NatDigits(-MinInt64 + 1), <<>>) }

StringVals ==
    { <<>>,
      <<"0">>,
      <<"1">>,
      <<"-", "1">>,
      <<"-", "0">>,
      <<"1", "2">>,
      <<" ", "1", "2">>,
      <<"1", "2", "a">>,
      <<"a">>,
      <<"-">>,
      <<"2", ".", "5">>,
      <<"3", ".", "5">>,
      <<"-", "5">>,
      <<"2", "0", "2", "3", "-", "0", "6", "-", "1", "5", " ", "1", "2", ":", "3", "0", ":", "0", "0">>,
      <<"2", "0", "2", "3", "-", "0", "6", "-", "1", "5", " ", "1", "2", ":", "3", "0", ":", "0", "0", ".", "5">>,
      <<"2", "0", "2", "3", "-", "0", "6", "-", "1", "5">>,
      <<"2", "0", "2", "3", "-", "1", "3", "-", "0", "1">>,
      <<"1", "2", ":", "3", "0", ":", "0", "0">>,
      <<"1", "2", ":", "3", "0", ":", "0", "0", ".", "5">>,
      <<"1", "2", ":", "3", "0", ":", "0", "0", "x">>,
      <<"0", "0", ":", "0", "0", ":", "0", "0", "x">>,
      <<"1", "2", ":", "6", "1", ":", "0", "0">>,
      <<"t", "r", "u", "e">>,
      <<"\"", "a", "\"">>,
      <<"{", "}">> }
    \cup { FormatUint(MaxInt64), FormatUint(MaxInt64 + 1), FormatUint(MaxUint64),
           FormatUint(MaxUint64 + 1), FormatInt(MinInt64),
           <<"-">> \o FormatUint(-MinInt64 + 1) }

\* Hybrid values (ENUM, SET, BIT) and binary literals: both views.
TwoViewVals == { [num |-> 1, text |-> <<"a">>], [num |-> 2, text |-> <<"1", "2">>],
                 [num |-> 49, text |-> <<"1">>] }

Noon == FromDate(2023, 6, 15, 12, 30, 0, 0)
TimeVals(t) ==
    IF t = mysql.TypeDate
    THEN { NewTime(FromDate(2023, 6, 15, 0, 0, 0, 0), mysql.TypeDate, 0), NewTime(ZeroCoreTime, mysql.TypeDate, 0) }
    ELSE { NewTime(Noon, t, 0), NewTime([Noon EXCEPT !.Frac = 5], t, 1),
           NewTime(FromDate(2023, 6, 15, 23, 59, 59, 5), t, 1), NewTime(ZeroCoreTime, t, 0) }
           \cup (IF t = mysql.TypeDatetime THEN { NewTime(FromDate(1960, 1, 1, 10, 0, 0, 0), t, 0) }
                 ELSE {})
DurationVals ==
    { ZeroDuration, NewDuration(450000, 0), NewDuration(450005, 1), NewDuration(-36000, 0),
      NewDuration(1080000, 0), NewDuration(863995, 1) }
JSONVals ==
    { CreateBinaryBool(TRUE), JSON(json.TypeCodeLiteral, 0, json.LiteralNil, ZeroFloat),
      CreateBinaryInt64(-5), CreateBinaryUint64(MaxUint64),
      CreateBinaryFloat64(Dec(FALSE, <<1>>, <<2, 5>>)), CreateBinaryFloat64(Dec(FALSE, <<2>>, <<5>>)),
      CreateBinaryString(<<"a">>), CreateBinaryString(<<"1", "2">>),
      CreateBinaryString(<<"2", "0", "2", "3", "-", "0", "6", "-", "1", "5", " ",
                           "1", "2", ":", "3", "0", ":", "0", "0">>),
      CreateBinaryString(<<"1", "2", ":", "3", "0", ":", "0", "0">>),
      CreateBinaryString(<<"1", "2", ":", "3", "0", ":", "0", "0", "x">>),
      JSONObject }

\* The values an argument of type e can evaluate to, and the zero value.
Values(e) ==
    CASE TwoViews(e) -> TwoViewVals
      [] EvalType(e) = types.ETInt -> IntVals
      [] EvalType(e) = types.ETReal -> RealVals
      [] EvalType(e) = types.ETDecimal -> DecimalVals
      [] EvalType(e) \in {types.ETDatetime, types.ETTimestamp} -> TimeVals(e.Tp)
      [] EvalType(e) = types.ETDuration -> DurationVals
      [] EvalType(e) = types.ETJson -> JSONVals
      [] OTHER -> StringVals
ZeroValue(e) ==
    CASE TwoViews(e) -> [num |-> 0, text |-> <<>>]
      [] EvalType(e) = types.ETInt -> 0
      [] EvalType(e) = types.ETReal -> ZeroFloat
      [] EvalType(e) = types.ETDecimal -> NilDecimal
      [] EvalType(e) \in {types.ETDatetime, types.ETTimestamp} -> ZeroTime
      [] EvalType(e) = types.ETDuration -> ZeroDuration
      [] EvalType(e) = types.ETJson -> ZeroJSON
      [] OTHER -> <<>>

\* What the argument returns on a row: a value, NULL, or an error.
Row(v, isNull, err) == [val |-> v, isNull |-> isNull, err |-> err]
Rows(e) ==
    { Row(v, FALSE, nil) : v \in Values(e) }
    \cup { Row(ZeroValue(e), TRUE, nil), Row(ZeroValue(e), TRUE, ErrArg),
           Row(ZeroValue(e), FALSE, ErrArg) }

\* ----------------------------------------------------------------- state
VARIABLES
    sc,     \* the statement context: policy flags and the warnings appended
    call,   \* the builder called, its argument count and the descriptor given
    node,   \* the kind of Expression the builder returned, and the error logged
    expr,   \* the argument expression args[0] of the cast
    tp,     \* the target FieldType, shared by the caller and the routine (b.tp)
    fn,     \* the routine BuildCastFunction put in the ScalarFunction
    row,    \* what args[0] returned on the row evaluated last
    res,    \* (val, isNull, err) the routine returned for that row
    phase,  \* "start"; "built" once a cast is built, "evaluated" after a row;
            \* "kept" when a wrapper returned the expression itself;
            \* "dispatched" after a bare getFunction; "nested" after a row
            \* of a cast whose argument is a cast
    inner   \* the cast that is the argument of a nested cast, and its row
vars == <<phase, sc, call, node, expr, tp, fn, row, res, inner>>

NoRow == Row({}, FALSE, nil)
NoRes == [val |-> {}, isNull |-> FALSE, err |-> nil]
Call(via, nargs, given) == [Via |-> via, NArgs |-> nargs, Given |-> given]
Inner(e, t, f, r) == [expr |-> e, tp |-> t, fn |-> f, row |-> r]

Init ==
    /\ sc \in StmtPolicies
    /\ call = Call("none", 0, NoType)
    /\ node = [Kind |-> "none", err |-> nil]
    /\ expr = NoExpr
    /\ tp = NoType
    /\ fn = NoSig
    /\ row = NoRow
    /\ res = NoRes
    /\ phase = "start"
    /\ inner = Inner(NoExpr, NoType, NoSig, NoRow)

\* The Expression n came back from the builder via, called with the
\* descriptor given (NoType when the builder makes its own).
Built(via, given, n) ==
    /\ call' = Call(via, 1, given)
    /\ node' = [Kind |-> n.Kind, err |-> n.err]
    /\ expr' = n.Arg
    /\ tp' = n.RetType
    /\ fn' = n.Function
    /\ phase' = IF n.Kind = "Expression" THEN "kept" ELSE "built"
    /\ UNCHANGED <<sc, row, res, inner>>

\* The planner builds CAST(e AS t).
Build ==
    /\ phase = "start"
    /\ \E e \in SourceExprs, t \in TargetTypes : Built("BuildCastFunction", t, BuildCastFunction(e, t))

\* The planner makes sure an argument is of a class.
WrapAsInt ==
    /\ phase = "start"
    /\ \E e \in SourceExprs : Built("WrapWithCastAsInt", NoType, WrapWithCastAsInt(e))
WrapAsReal ==
    /\ phase = "start"
    /\ \E e \in SourceExprs : Built("WrapWithCastAsReal", NoType, WrapWithCastAsReal(e))
WrapAsDecimal ==
    /\ phase = "start"
    /\ \E e \in SourceExprs : Built("WrapWithCastAsDecimal", NoType, WrapWithCastAsDecimal(e))
WrapAsString ==
    /\ phase = "start"
    /\ \E e \in SourceExprs : Built("WrapWithCastAsString", NoType, WrapWithCastAsString(e))
WrapAsTime ==
    /\ phase = "start"
    /\ \E e \in SourceExprs \cup FspExprs, t \in TimeTargets :
          Built("WrapWithCastAsTime", t, WrapWithCastAsTime(e, t))
WrapAsDuration ==
    /\ phase = "start"
    /\ \E e \in SourceExprs \cup FspExprs :
          Built("WrapWithCastAsDuration", NoType, WrapWithCastAsDuration(e))
WrapAsJSON ==
    /\ phase = "start"
    /\ \E e \in SourceExprs : Built("WrapWithCastAsJSON", NoType, WrapWithCastAsJSON(e))

\* A dispatcher is called on an argument list of any length.
GetFunction ==
    /\ phase = "start"
    /\ \E t \in TargetTypes, args \in ArgLists :
          LET g == getFunction(t, args)
          IN /\ call' = Call("getFunction", Len(args), t)
             /\ node' = [Kind |-> IF g.err = nil THEN "builtinFunc" ELSE "none", err |-> g.err]
             /\ expr' = IF Len(args) > 0 THEN args[1] ELSE NoExpr
             /\ tp' = g.tp
             /\ fn' = g.fn
    /\ phase' = "dispatched"
    /\ UNCHANGED <<sc, row, res, inner>>

\* One row evaluated through the accessor ev of the ScalarFunction.
CanEval(et) ==
    /\ phase \in {"built", "evaluated"}
    /\ EvalType(tp) \in et
    /\ Len(sc.warnings) < MaxWarnings
Returned(r, o) ==
    /\ row' = r
    /\ res' = [val |-> o.val, isNull |-> o.isNull, err |-> o.err]
    /\ sc' = o.sc
    /\ phase' = "evaluated"
    /\ UNCHANGED <<call, node, expr, tp, fn, inner>>

EvalIntRow == CanEval({types.ETInt}) /\ \E r \in Rows(expr) : Returned(r, evalInt(fn, sc, expr, tp, r))
EvalRealRow == CanEval({types.ETReal}) /\ \E r \in Rows(expr) : Returned(r, evalReal(fn, sc, expr, tp, r))
EvalDecimalRow ==
    CanEval({types.ETDecimal}) /\ \E r \in Rows(expr) : Returned(r, evalDecimal(fn, sc, expr, tp, r))
EvalStringRow ==
    CanEval({types.ETString}) /\ \E r \in Rows(expr) : Returned(r, evalString(fn, sc, expr, tp, r))
EvalTimeRow ==
    CanEval({types.ETDatetime, types.ETTimestamp})
    /\ \E r \in Rows(expr) : Returned(r, evalTime(fn, sc, expr, tp, r))
EvalDurationRow ==
    CanEval({types.ETDuration}) /\ \E r \in Rows(expr) : Returned(r, evalDuration(fn, sc, expr, tp, r))
EvalJSONRow == CanEval({types.ETJson}) /\ \E r \in Rows(expr) : Returned(r, evalJSON(fn, sc, expr, tp, r))

\* The outcome of the routine f through the accessor of its target class.
Outcome(f, c, e, t, r) ==
    CASE EvalType(t) = types.ETInt -> evalInt(f, c, e, t, r)
      [] EvalType(t) = types.ETReal -> evalReal(f, c, e, t, r)
      [] EvalType(t) = types.ETDecimal -> evalDecimal(f, c, e, t, r)
      [] EvalType(t) = types.ETString -> evalString(f, c, e, t, r)
      [] EvalType(t) \in {types.ETDatetime, types.ETTimestamp} -> evalTime(f, c, e, t, r)
      [] EvalType(t) = types.ETDuration -> evalDuration(f, c, e, t, r)
      [] EvalType(t) = types.ETJson -> evalJSON(f, c, e, t, r)

\* The Expression a cast is: its type is the return type of the cast, and it
\* is no constant.
CastExpr(t) ==
    [Tp |-> t.Tp, Flen |-> t.Flen, Decimal |-> t.Decimal, Flag |-> t.Flag, BinaryLiteral |-> FALSE]

\* The row r was evaluated through the cast n back to the descriptor back,
\* built over the cast evaluated last, with the outcome o.
NestedReturned(back, n, r, o) ==
    /\ n.err = nil
    /\ call' = Call("BuildCastFunction", 1, back)
    /\ node' = [Kind |-> n.Kind, err |-> n.err]
    /\ expr' = n.Arg
    /\ tp' = n.RetType
    /\ fn' = n.Function
    /\ row' = r
    /\ res' = [val |-> o.val, isNull |-> o.isNull, err |-> o.err]
    /\ sc' = o.sc
    /\ inner' = Inner(expr, tp, fn, row)
    /\ phase' = "nested"
NestedOver(back, n, r) ==
    NestedReturned(back, n, r, Outcome(n.Function, sc, n.Arg, n.RetType, r))

\* CAST(CAST(e AS t) AS back): the planner builds a cast back to the class of
\* e over the cast evaluated last, and the row is evaluated through it; the
\* argument of the outer routine returns what the inner routine returned.
CastBack ==
    /\ phase = "evaluated"
    /\ Len(sc.warnings) < MaxWarnings
    /\ \E back \in {t \in TargetTypes : EvalType(t) = EvalType(expr)} :
          NestedOver(back, BuildCastFunction(CastExpr(tp), back), Row(res.val, res.isNull, res.err))

Next ==
    \/ Build
    \/ WrapAsInt
    \/ WrapAsReal
    \/ WrapAsDecimal
    \/ WrapAsString
    \/ WrapAsTime
    \/ WrapAsDuration
    \/ WrapAsJSON
    \/ GetFunction
    \/ EvalIntRow
    \/ EvalRealRow
    \/ EvalDecimalRow
    \/ EvalStringRow
    \/ EvalTimeRow
    \/ EvalDurationRow
    \/ EvalJSONRow
    \/ CastBack

Spec == Init /\ [][Next]_vars

\* ------------------------------------------------------------- properties
\* A cast was built: a routine was put in a ScalarFunction.
IsCast == phase \in {"built", "evaluated"}

\* The routines that define the eval accessor of a target class, as declared
\* by the evalXX methods of src/expression/builtin_cast.go.
RoutinesOf(et) ==
    CASE et = types.ETInt ->
      { "builtinCastIntAsIntSig", "builtinCastRealAsIntSig", "builtinCastDecimalAsIntSig",
        "builtinCastStringAsIntSig", "builtinCastTimeAsIntSig", "builtinCastDurationAsIntSig",
        "builtinCastJSONAsIntSig" }
      [] et = types.ETReal ->
      { "builtinCastIntAsRealSig", "builtinCastRealAsRealSig", "builtinCastDecimalAsRealSig",
        "builtinCastStringAsRealSig", "builtinCastTimeAsRealSig", "builtinCastDurationAsRealSig",
        "builtinCastJSONAsRealSig" }
      [] et = types.ETDecimal ->
      { "builtinCastIntAsDecimalSig", "builtinCastRealAsDecimalSig", "builtinCastDecimalAsDecimalSig",
        "builtinCastStringAsDecimalSig", "builtinCastTimeAsDecimalSig", "builtinCastDurationAsDecimalSig",
        "builtinCastJSONAsDecimalSig" }
      [] et = types.ETString ->
      { "builtinCastIntAsStringSig", "builtinCastRealAsStringSig", "builtinCastDecimalAsStringSig",
        "builtinCastStringAsStringSig", "builtinCastTimeAsStringSig", "builtinCastDurationAsStringSig",
        "builtinCastJSONAsStringSig" }
      [] et \in {types.ETDatetime, types.ETTimestamp} ->
      { "builtinCastIntAsTimeSig", "builtinCastRealAsTimeSig", "builtinCastDecimalAsTimeSig",
        "builtinCastStringAsTimeSig", "builtinCastTimeAsTimeSig", "builtinCastDurationAsTimeSig",
        "builtinCastJSONAsTimeSig" }
      [] et = types.ETDuration ->
      { "builtinCastIntAsDurationSig", "builtinCastRealAsDurationSig", "builtinCastDecimalAsDurationSig",
        "builtinCastStringAsDurationSig", "builtinCastTimeAsDurationSig", "builtinCastDurationAsDurationSig",
        "builtinCastJSONAsDurationSig" }
      [] et = types.ETJson ->
      { "builtinCastIntAsJSONSig", "builtinCastRealAsJSONSig", "builtinCastDecimalAsJSONSig",
        "builtinCastStringAsJSONSig", "builtinCastTimeAsJSONSig", "builtinCastDurationAsJSONSig",
        "builtinCastJSONAsJSONSig" }
      [] OTHER -> {}

\* C1: for every source class and target class BuildCastFunction selects a
\* routine, and the routine selected implements the eval accessor of the target
\* class: a built cast holds one of the seven routines of its target class,
\* and no row evaluated through that accessor reaches the panicking default of
\* baseBuiltinFunc.
C1_RoutingComplete ==
    /\ IsCast => fn.sig \in RoutinesOf(EvalType(tp))
    /\ phase = "evaluated" => res.err # ErrPanic

\* A JSON source cast to Duration was dispatched and a row went through evalDuration.
C1_Witness ==
    /\ phase = "evaluated"
    /\ EvalType(expr) = types.ETJson /\ EvalType(tp) = types.ETDuration
    /\ fn.sig = "builtinCastJSONAsDurationSig"
    /\ res.err = nil /\ ~res.isNull

\* C2: null propagation holds for every conversion routine: when the source
\* accessor reports isNull = true with no error, the routine returns
\* isNull = true and no error.
C2_NullPropagation ==
    (phase = "evaluated" /\ row.isNull /\ row.err = nil) => (res.isNull /\ res.err = nil)

\* The strings past the range: one more than MaxUint64, one less than MinInt64.
PositiveOverflowText == FormatUint(MaxUint64 + 1)
NegativeOverflowText == <<"-">> \o FormatUint((-MinInt64) + 1)

\* C3: String-to-Integer of an out-of-range string: in a lenient context the
\* result is the endpoint (MaxUint64 for an unsigned target, MinInt64 for a
\* negative string), one warning is recorded and no error is returned; in a
\* strict context the overflow error is returned and nothing is recorded.
C3_OverflowPolicy ==
    [][(/\ phase' = "evaluated"
        /\ fn.sig = "builtinCastStringAsIntSig"
        /\ ~TwoViews(expr)
        /\ ~Failed(row')
        /\ row'.val \in {PositiveOverflowText, NegativeOverflowText})
       => IF sc.InSelectStmt
          THEN /\ res'.err = nil
               /\ ~res'.isNull
               /\ sc'.warnings = Append(sc.warnings, types.ErrTruncatedWrongVal)
               /\ row'.val = NegativeOverflowText => res'.val = MinInt64
               /\ (row'.val = PositiveOverflowText /\ HasUnsignedFlag(tp.Flag))
                     => Uint64OfInt64(res'.val) = MaxUint64
          ELSE /\ res'.err = types.ErrOverflow
               /\ sc'.warnings = sc.warnings]_vars

\* The string one past MaxUint64 was cast to an unsigned target in a lenient
\* statement: MaxUint64 came back with the warning.
C3_Witness ==
    /\ phase = "evaluated"
    /\ fn.sig = "builtinCastStringAsIntSig"
    /\ HasUnsignedFlag(tp.Flag)
    /\ sc.InSelectStmt
    /\ ~Failed(row)
    /\ row.val = PositiveOverflowText
    /\ Uint64OfInt64(res.val) = MaxUint64
    /\ res.err = nil
    /\ sc.warnings = <<types.ErrTruncatedWrongVal>>

\* C4: a negative numeric string that fits int64, cast to an unsigned target,
\* yields the two's-complement bit pattern of the number, no error, and always
\* one more warning (ErrCastNegIntAsUnsigned) in the diagnostics sink.
C4_NegativeToUnsigned ==
    [][\A n \in {1, 5, -MinInt64} :
          (/\ phase' = "evaluated"
           /\ fn.sig = "builtinCastStringAsIntSig"
           /\ HasUnsignedFlag(tp.Flag)
           /\ ~TwoViews(expr)
           /\ ~Failed(row')
           /\ row'.val = <<"-">> \o FormatUint(n))
          => /\ res'.err = nil
             /\ ~res'.isNull
             /\ Uint64OfInt64(res'.val) = TwoToBits - n
             /\ sc'.warnings = Append(sc.warnings, types.ErrCastNegIntAsUnsigned)]_vars

\* "-1" was cast to an unsigned target: all bits set, with the warning.
C4_Witness ==
    /\ phase = "evaluated"
    /\ fn.sig = "builtinCastStringAsIntSig"
    /\ HasUnsignedFlag(tp.Flag)
    /\ ~Failed(row)
    /\ row.val = <<"-", "1">>
    /\ Uint64OfInt64(res.val) = MaxUint64
    /\ res.err = nil
    /\ sc.warnings = <<types.ErrCastNegIntAsUnsigned>>

\* C5: for every source class, when the target type tag is DATE every
\* successful non-null result of the cast to DateTime has hour, minute, second
\* and fractional second all zero.
C5_DateTruncation ==
    (phase = "evaluated" /\ tp.Tp = mysql.TypeDate /\ res.err = nil /\ ~res.isNull)
    => (res.val.Hour = 0 /\ res.val.Minute = 0 /\ res.val.Second = 0 /\ res.val.Frac = 0)

\* The text the Decimal, String and JSON routines hand to ParseDuration.
DurationText ==
    CASE fn.sig = "builtinCastDecimalAsDurationSig" -> DecToString(EvalDecimal(expr, row).val)
      [] fn.sig = "builtinCastStringAsDurationSig" -> EvalString(expr, row).val
      [] fn.sig = "builtinCastJSONAsDurationSig" -> JSONUnquote(EvalJSON(expr, row).val).val

\* C6: for each of the Decimal, String and JSON sources of a cast to Duration,
\* when the duration parse returns the zero duration together with a truncation
\* diagnostic the routine returns SQL NULL (isNull = true).
C6_ZeroDurationIsNull ==
    (/\ phase = "evaluated"
     /\ fn.sig \in {"builtinCastDecimalAsDurationSig", "builtinCastStringAsDurationSig",
                    "builtinCastJSONAsDurationSig"}
     /\ ~Failed(row)
     /\ ParseDuration(DurationText, tp.Decimal).val = ZeroDuration
     /\ ParseDuration(DurationText, tp.Decimal).err = types.ErrTruncatedWrongVal)
    => res.isNull

\* C7: every routine with target Decimal passes its decimal through the
\* precision adjustment before returning a successful non-null result: under
\* a target DECIMAL(Flen, Decimal) the result has the scale of the target,
\* Decimal fraction digits.
C7_DecimalAdjusted ==
    (/\ phase = "evaluated"
     /\ EvalType(tp) = types.ETDecimal
     /\ tp.Flen # UnspecifiedLength /\ tp.Decimal # UnspecifiedLength
     /\ res.err = nil /\ ~res.isNull)
    => Len(res.val.frac) = tp.Decimal

\* C8: every routine with target String passes its text through the
\* display-length step before returning a successful non-null result, so no
\* returned string is longer than the declared display length of the target.
C8_StringClamped ==
    (/\ phase = "evaluated"
     /\ EvalType(tp) = types.ETString
     /\ tp.Flen # UnspecifiedLength
     /\ res.err = nil /\ ~res.isNull)
    => Len(res.val) <= tp.Flen

\* C9: Decimal-to-Integer rounds to zero fraction digits with ties to the even
\* neighbour, for signed and unsigned targets alike: k + 0.5 yields the even
\* one of k and k + 1 (and -(k + 0.5) its negative, which only a signed target
\* or a result of zero can hold).
C9_HalfToEven ==
    \A k \in 0..SmallInt, n \in BOOLEAN :
        LET even == IF k % 2 = 0 THEN k ELSE k + 1
        IN (/\ phase = "evaluated"
            /\ fn.sig = "builtinCastDecimalAsIntSig"
            /\ ~Failed(row)
            /\ row.val = [neg |-> n, int |-> StripZeros(NatDigits(k)), frac |-> <<5>>]
            /\ (HasUnsignedFlag(tp.Flag) => (~n \/ even = 0)))
           => (res.err = nil /\ ~res.isNull /\ res.val = (IF n THEN -even ELSE even))

\* 3.5 was cast to an integer: 4 came back.
C9_Witness ==
    /\ phase = "evaluated"
    /\ fn.sig = "builtinCastDecimalAsIntSig"
    /\ ~Failed(row)
    /\ row.val = [neg |-> FALSE, int |-> <<3>>, frac |-> <<5>>]
    /\ res.val = 4
    /\ res.err = nil

\* C10: Integer-to-JSON of a non-null integer v: the JSON boolean (v # 0) when
\* the source type carries the boolean flag, whether or not it is unsigned;
\* otherwise a JSON unsigned number when the source is unsigned, and a JSON
\* signed number equal to v when it is signed.
C10_IntToJSON ==
    (phase = "evaluated" /\ fn.sig = "builtinCastIntAsJSONSig" /\ ~Failed(row))
    => LET v == EvalInt(expr, row).val
       IN /\ res.err = nil
          /\ ~res.isNull
          /\ IF mysql.IsBooleanFlag \in expr.Flag
             THEN /\ res.val.TypeCode = json.TypeCodeLiteral
                  /\ res.val.Str = (IF v # 0 THEN json.LiteralTrue ELSE json.LiteralFalse)
             ELSE IF mysql.UnsignedFlag \in expr.Flag
             THEN /\ res.val.TypeCode = json.TypeCodeUint64
                  /\ res.val.Int = (IF v < 0 THEN v + TwoToBits ELSE v)
             ELSE /\ res.val.TypeCode = json.TypeCodeInt64
                  /\ res.val.Int = v

\* A boolean-flagged unsigned 1 was cast to JSON: true came back.
C10_Witness ==
    /\ phase = "evaluated"
    /\ fn.sig = "builtinCastIntAsJSONSig"
    /\ expr.Flag = {mysql.UnsignedFlag, mysql.IsBooleanFlag}
    /\ ~Failed(row)
    /\ row.val = 1
    /\ res.val.TypeCode = json.TypeCodeLiteral
    /\ res.val.Str = json.LiteralTrue


\* The seven classes as the routines are named after them, and the routine
\* and the opcode named after a (source, target) pair.
Classes == {"Int", "Real", "Decimal", "String", "Time", "Duration", "JSON"}
ClassName(et) ==
    CASE et = types.ETInt -> "Int"
      [] et = types.ETReal -> "Real"
      [] et = types.ETDecimal -> "Decimal"
      [] et = types.ETString -> "String"
      [] et \in {types.ETDatetime, types.ETTimestamp} -> "Time"
      [] et = types.ETDuration -> "Duration"
      [] et = types.ETJson -> "JSON"
CastRoutine(src, dst) == "builtinCast" \o src \o "As" \o dst \o "Sig"
OpcodeClass(cls) == IF cls = "JSON" THEN "Json" ELSE cls
CastOpcode(src, dst) == "ScalarFuncSig_Cast" \o OpcodeClass(src) \o "As" \o OpcodeClass(dst)

\* C11: for target Integer and for target String, a source whose type is
\* hybrid or that is a binary literal is routed to the identity routine of the
\* target class (CastIntAsInt, CastStringAsString), whatever its declared
\* evaluation class is.
C11_TwoViewsIdentity ==
    (IsCast /\ (Hybrid(expr) \/ IsBinaryLiteral(expr)))
    => /\ EvalType(tp) = types.ETInt => fn.sig = "builtinCastIntAsIntSig"
       /\ EvalType(tp) = types.ETString => fn.sig = "builtinCastStringAsStringSig"

\* An ENUM source, of evaluation class String, was cast to Integer through
\* CastIntAsInt, and a row was evaluated.
C11_Witness ==
    /\ phase = "evaluated"
    /\ expr.Tp = mysql.TypeEnum /\ EvalType(expr) = types.ETString
    /\ EvalType(tp) = types.ETInt
    /\ fn.sig = "builtinCastIntAsIntSig"
    /\ res.err = nil /\ ~res.isNull

\* C12: for target Real and for target Decimal, a binary-literal source is
\* routed to the identity routine of the target class, hybrid or not; a hybrid
\* source that is not a binary literal is routed as an Integer source.
C12_RealDecimalSpecialCases ==
    (IsCast /\ EvalType(tp) \in {types.ETReal, types.ETDecimal})
    => LET T == ClassName(EvalType(tp))
       IN /\ IsBinaryLiteral(expr) => fn.sig = CastRoutine(T, T)
          /\ (Hybrid(expr) /\ ~IsBinaryLiteral(expr)) => fn.sig = CastRoutine("Int", T)

\* A binary literal of the hybrid type BIT was cast to Real through
\* CastRealAsReal.
C12_Witness ==
    /\ IsCast
    /\ IsBinaryLiteral(expr) /\ Hybrid(expr)
    /\ EvalType(tp) = types.ETReal
    /\ fn.sig = "builtinCastRealAsRealSig"

\* C13: for targets DateTime, Duration and Json the routine is the one named
\* after the declared evaluation class of the source, for a hybrid or
\* binary-literal source as for any other.
C13_DeclaredClassOnly ==
    (IsCast /\ EvalType(tp) \in {types.ETDatetime, types.ETTimestamp, types.ETDuration, types.ETJson})
    => fn.sig = CastRoutine(ClassName(EvalType(expr)), ClassName(EvalType(tp)))

\* An ENUM source was cast to DATE through CastStringAsTime.
C13_Witness ==
    /\ IsCast
    /\ expr.Tp = mysql.TypeEnum
    /\ tp.Tp = mysql.TypeDate
    /\ fn.sig = "builtinCastStringAsTimeSig"

\* C14: every routine a dispatcher returns carries the opcode named after its
\* own (source, target) pair, on the hybrid and binary-literal shortcuts too:
\* it is the routine of a pair, and it carries the opcode of a pair exactly
\* when it is the routine of that pair.
C14_OpcodeOfRoutine ==
    IsCast => /\ \E src \in Classes, dst \in Classes : fn.sig = CastRoutine(src, dst)
              /\ \A src \in Classes, dst \in Classes :
                    (fn.sig = CastRoutine(src, dst)) <=> (fn.pbCode = CastOpcode(src, dst))

\* A binary literal was cast to String on the shortcut: CastStringAsString
\* with its own opcode.
C14_Witness ==
    /\ IsCast
    /\ IsBinaryLiteral(expr)
    /\ fn.sig = "builtinCastStringAsStringSig"
    /\ fn.pbCode = "ScalarFuncSig_CastStringAsString"


\* The wrapper helpers and the class each one asks for.
Wrappers == { "WrapWithCastAs" \o cls : cls \in Classes }
RequestedClass(via) == CHOOSE cls \in Classes : via = "WrapWithCastAs" \o cls

KeptByWrapper(via, e, given) ==
    CASE via = "WrapWithCastAsTime" ->
            \/ e.Tp = given.Tp
            \/ e.Tp \in {mysql.TypeDate, mysql.TypeTimestamp} /\ given.Tp = mysql.TypeDatetime
      [] via = "WrapWithCastAsJSON" -> e.Tp = mysql.TypeJSON /\ mysql.ParseToJSONFlag \notin e.Flag
      [] OTHER -> ClassName(EvalType(e)) = RequestedClass(via)

C16_FoldUnlessJSON ==
    IsCast => /\ node.Kind \in {"ScalarFunction", "Constant"}
              /\ (node.Kind = "Constant") <=> (IsConstant(expr) /\ EvalType(tp) # types.ETJson)

\* A binary literal was cast to Json: the unfolded cast came back.
C16_Witness ==
    /\ IsCast
    /\ call.Via = "BuildCastFunction"
    /\ IsConstant(expr)
    /\ EvalType(tp) = types.ETJson
    /\ node.Kind = "ScalarFunction"
    /\ fn.sig = "builtinCastStringAsJSONSig"


\* C17: the target descriptor the caller supplies is not modified by building
\* a cast: after getFunction, BuildCastFunction or WrapWithCastAsTime returns,
\* and while rows are evaluated, every field of the descriptor equals its
\* value before the call.
C17_DescriptorUnchanged ==
    (call.Via \in {"getFunction", "BuildCastFunction", "WrapWithCastAsTime"}) => tp = call.Given


\* C18: an invalid dispatch request never silently produces a conversion: a
\* dispatcher called with a number of arguments other than one returns the
\* parameter-count error and no routine, no routine is returned together with
\* an error or by the default arm of a dispatcher's switch, and a cast that
\* can be evaluated holds a routine of its target class that a dispatcher
\* returned without error.
C18_NoSilentCoercion ==
    /\ (call.Via = "getFunction" /\ call.NArgs # 1)
          => (node.err = ErrIncorrectParameterCount /\ fn = NoSig)
    /\ node.err # nil => fn = NoSig
    /\ fn # PanicSig
    /\ IsCast => (node.err = nil /\ fn.sig \in RoutinesOf(EvalType(tp)))

\* A dispatcher was called on two arguments: the error came back, and no
\* routine.
C18_Witness ==
    /\ call.Via = "getFunction"
    /\ call.NArgs = 2
    /\ node.err = ErrIncorrectParameterCount
    /\ fn = NoSig


\* C19: no routine decides by itself whether an overflow or a truncation is a
\* warning or a fatal error: the overflow or truncation error a routine
\* returns is the one the diagnostics sink returns for it under the policy of
\* the statement, so none is returned where the sink downgrades it.  (The
\* number of a time fits in 64 bits but not in IntBits bits, so the overflow
\* of Time-to-Integer is left out.)
C19_SinkDecides ==
    (phase = "evaluated" /\ row.err = nil /\ fn.sig # "builtinCastTimeAsIntSig")
    => /\ res.err = types.ErrOverflow
             => HandleOverflow(sc, res.err, res.err).err = res.err
       /\ res.err \in {types.ErrTruncated, types.ErrTruncatedWrongVal}
             => HandleTruncate(sc, res.err).err = res.err

\* The magnitude of the real of the row rounded to an integer, and whether it
\* lies outside the range of the target of the cast.
RealMagnitude == DigitsVal(FloatRoundDigits(row.val), TwoToBits)

RealBelowTarget ==
    row.val.neg /\ RealMagnitude > (IF HasUnsignedFlag(tp.Flag) THEN 0 ELSE -MinInt64)

RealAboveTarget ==
    ~row.val.neg /\ RealMagnitude > (IF HasUnsignedFlag(tp.Flag) THEN MaxUint64 ELSE MaxInt64)

RealOutsideTarget ==
    /\ phase = "evaluated"
    /\ fn.sig = "builtinCastRealAsIntSig"
    /\ ~Failed(row)
    /\ ~row.isNull
    /\ RealBelowTarget \/ RealAboveTarget

\* The saturation half of C20: a real outside the range of the target comes
\* back as the bound of the target it passed.
C20_Saturates ==
    RealOutsideTarget
    => res.val = IF HasUnsignedFlag(tp.Flag)
                 THEN Int64OfUint64(IF RealBelowTarget THEN 0 ELSE MaxUint64)
                 ELSE IF RealBelowTarget THEN MinInt64 ELSE MaxInt64

\* C20: Real-to-Integer with a value outside the target range returns the
\* value saturated at the bound of the target, and under a policy that
\* downgrades overflow to a warning it returns the saturated value with no
\* error.
C20_SaturatesRecoverably ==
    /\ C20_Saturates
    /\ (RealOutsideTarget /\ sc.OverflowAsWarning) => res.err = nil

\* A real above MaxInt64 cast to a signed integer under a downgrading policy.
C20_Witness ==
    /\ RealOutsideTarget
    /\ RealAboveTarget
    /\ ~HasUnsignedFlag(tp.Flag)
    /\ sc.OverflowAsWarning
    /\ res.val = MaxInt64

\* A String-to-Json routine has evaluated a non-null string.
StringToJSONEvaluated ==
    /\ phase = "evaluated"
    /\ fn.sig = "builtinCastStringAsJSONSig"
    /\ ~Failed(row)

\* Every String-to-Json routine that comes from the Json dispatcher carries the
\* parse-as-JSON flag, whatever descriptor the dispatcher was given.
C21_DispatcherAlwaysParses ==
    (phase # "start" /\ fn.sig = "builtinCastStringAsJSONSig") => HasParseToJSONFlag(tp.Flag)

\* C21: String-to-Json on a non-null string s parses s as JSON text when the
\* target spec carries the parse-as-JSON flag (malformed text is an error) and
\* wraps s verbatim as a JSON string scalar, unparsed, when the target spec
\* the dispatcher was given does not carry it.
C21_FlagOfTargetDecides ==
    (StringToJSONEvaluated /\ call.Via = "BuildCastFunction")
    => IF HasParseToJSONFlag(call.Given.Flag)
       THEN /\ res.val = ParseBinaryFromString(row.val).val
            /\ res.err = ParseBinaryFromString(row.val).err
       ELSE /\ res.val = CreateBinaryString(row.val)
            /\ res.err = nil

\* Malformed text cast under a descriptor without the flag.
C21_Witness ==
    /\ StringToJSONEvaluated
    /\ call.Via = "BuildCastFunction"
    /\ ~HasParseToJSONFlag(call.Given.Flag)
    /\ res.err = json.ErrInvalidJSONText

\* The step evaluates a row with the outcome o of the routine under an empty
\* sink: the routine, its argument and its target stay as they were, the
\* policy stays, and the warnings of o are appended to the sink.
WritesOnlyTheSink(o) ==
    /\ <<call', node', expr', tp', fn'>> = <<call, node, expr, tp, fn>>
    /\ [sc' EXCEPT !.warnings = <<>>] = [sc EXCEPT !.warnings = <<>>]
    /\ sc'.warnings = sc.warnings \o o.sc.warnings
    /\ res' = [val |-> o.val, isNull |-> o.isNull, err |-> o.err]

IntToStringAndBack ==
    /\ phase = "nested"
    /\ inner.fn.sig = "builtinCastIntAsStringSig"
    /\ fn.sig = "builtinCastStringAsIntSig"
    /\ ~Failed(inner.row)
    /\ ~Failed(row)
    /\ HasUnsignedFlag(inner.expr.Flag) = HasUnsignedFlag(tp.Flag)
    /\ row.val = IF HasUnsignedFlag(inner.expr.Flag)
                 THEN FormatUint(Uint64OfInt64(inner.row.val))
                 ELSE FormatInt(inner.row.val)

\* C23: round trip Integer to String to Integer: casting an integer n to
\* String with a display length that does not truncate and casting the text
\* back to an Integer target of the same signedness yields n with no error.
C23_IntStringIntRoundTrip ==
    IntToStringAndBack => (res.val = inner.row.val /\ res.err = nil /\ ~res.isNull)

\* The round trip of a negative integer, and of an unsigned integer above
\* MaxInt64.
C23_Witness ==
    /\ IntToStringAndBack
    /\ res.val = inner.row.val
    /\ \/ inner.row.val = -SmallInt
       \/ HasUnsignedFlag(tp.Flag) /\ inner.row.val = MinInt64

\* The warnings the step appended to the sink.
NewWarnings ==
    { sc'.warnings[k] : k \in (Len(sc.warnings) + 1)..Len(sc'.warnings) }

\* The step evaluates String-to-Integer on a non-null string read as text.
StringToIntStep ==
    /\ phase' = "evaluated"
    /\ fn.sig = "builtinCastStringAsIntSig"
    /\ ~Hybrid(expr)
    /\ ~IsBinaryLiteral(expr)
    /\ ~Failed(row')

\* The string of the row, trimmed, and whether it starts with '-'.
Trimmed == TrimSpace(row'.val)
IsNegativeString == Len(Trimmed) > 1 /\ Trimmed[1] = "-"

\* C24: String-to-Integer on a string with a leading '-' always uses the
\* signed parse, and the negative-as-unsigned warning is appended when the
\* target is unsigned and not when the target is signed.
C24_NegativeWarnsUnsignedOnly ==
    [][(StringToIntStep /\ IsNegativeString /\ StrToInt(sc, Trimmed).err = nil)
       => /\ res'.val = StrToInt(sc, Trimmed).val
          /\ res'.err = nil
          /\ (types.ErrCastNegIntAsUnsigned \in NewWarnings) <=> HasUnsignedFlag(tp.Flag)]_vars

\* The signed-parse half of C24: the value is that of the signed parse and
\* the warning is appended for an unsigned target.
C24_SignedParse ==
    [][(StringToIntStep /\ IsNegativeString /\ StrToInt(sc, Trimmed).err = nil)
       => /\ res'.val = StrToInt(sc, Trimmed).val
          /\ res'.err = nil
          /\ HasUnsignedFlag(tp.Flag) => types.ErrCastNegIntAsUnsigned \in NewWarnings]_vars

\* A temporal wrapper built a cast.
TemporalWrapperCast ==
    IsCast /\ call.Via \in {"WrapWithCastAsTime", "WrapWithCastAsDuration"}

\* The precision the wrapper called takes from the source expression.
WrapperPrecision ==
    IF \/ expr.Tp \in {mysql.TypeDatetime, mysql.TypeTimestamp, mysql.TypeDate}
       \/ call.Via = "WrapWithCastAsTime" /\ expr.Tp = mysql.TypeDuration
    THEN expr.Decimal
    ELSE MaxFsp

\* The display width of the target type without a fractional part.
BaseWidth ==
    CASE tp.Tp = mysql.TypeDate -> mysql.MaxDateWidth
      [] tp.Tp \in {mysql.TypeDatetime, mysql.TypeTimestamp} -> mysql.MaxDatetimeWidthNoFsp
      [] tp.Tp = mysql.TypeDuration -> mysql.MaxDurationWidthNoFsp

WidthWithPrecision == IF tp.Decimal > 0 THEN BaseWidth + 1 + tp.Decimal ELSE BaseWidth

\* C25 as stated: the temporal wrappers set the precision of the target from
\* the source (its own precision when it is temporal, else the maximum), and
\* in both the display width is the base width plus 1 + precision exactly when
\* the precision is greater than zero.
C25_WidthFollowsPrecision ==
    TemporalWrapperCast => (tp.Decimal = WrapperPrecision /\ tp.Flen = WidthWithPrecision)

\* C25 amended: the precision is as stated; the display width is the base
\* width plus 1 + precision exactly when the precision is greater than zero
\* for a DATETIME, TIMESTAMP or Duration target, and the base width of a DATE
\* whatever the precision for a DATE target.
C25_WidthFollowsPrecisionButDate ==
    TemporalWrapperCast
    => /\ tp.Decimal = WrapperPrecision
       /\ tp.Flen = IF tp.Tp = mysql.TypeDate THEN mysql.MaxDateWidth ELSE WidthWithPrecision

\* WrapWithCastAsTime built a cast of a Duration with one fractional digit to
\* TIMESTAMP: precision 1, width 19 + 1 + 1.
C25_Witness ==
    /\ TemporalWrapperCast
    /\ call.Via = "WrapWithCastAsTime"
    /\ expr.Tp = mysql.TypeDuration
    /\ tp.Tp = mysql.TypeTimestamp
    /\ tp.Decimal = 1
    /\ tp.Flen = mysql.MaxDatetimeWidthNoFsp + 2

\* The warnings of the cast itself, as opposed to those of the sink.
CastWarnings == {types.ErrCastNegIntAsUnsigned, types.ErrCastAsSignedOverflow}

\* p is what the parse of the step returned (StrToInt or StrToUint): a cast
\* warning only after a parse without error, which is also returned as it is
\* with at most that one warning more; none after an overflow.
WarningOrClamp(p) ==
    /\ (NewWarnings \cap CastWarnings # {}) => p.err = nil
    /\ p.err = nil
          => /\ res'.err = nil
             /\ res'.val = IF IsNegativeString THEN p.val ELSE Int64OfUint64(p.val)
             /\ Len(sc'.warnings) <= Len(p.sc.warnings) + 1
             /\ \A k \in 1..Len(p.sc.warnings) : sc'.warnings[k] = p.sc.warnings[k]
             /\ \A k \in (Len(p.sc.warnings) + 1)..Len(sc'.warnings) : sc'.warnings[k] \in CastWarnings
    /\ p.err = types.ErrOverflow => NewWarnings \cap CastWarnings = {}

\* C26: in one evaluation of String-to-Integer the cast-specific warning and
\* the overflow handling are mutually exclusive: the negative-as-unsigned and
\* the cast-as-signed-overflow warning are appended only when the parse
\* returned no error, the clamp-and-report branch of handleOverflow runs only
\* when the parse returned an error, and an overflowing input never gets the
\* negative-as-unsigned warning.
C26_WarningXorOverflow ==
    [][StringToIntStep
       => WarningOrClamp(IF IsNegativeString THEN StrToInt(sc, Trimmed) ELSE StrToUint(sc, Trimmed))]_vars

\* The string one below MinInt64 in a lenient statement: clamped, reported by
\* the sink, and without the negative-as-unsigned warning.
C26_Witness ==
    /\ phase = "evaluated"
    /\ fn.sig = "builtinCastStringAsIntSig"
    /\ ~Failed(row)
    /\ row.val = NegativeOverflowText
    /\ sc.InSelectStmt
    /\ res.val = MinInt64
    /\ res.err = nil
    /\ sc.warnings = <<types.ErrTruncatedWrongVal>>

\* p is what the parse of the step returned, with an error: an overflow in a
\* SELECT is clamped by the sign of the string, any other error is returned
\* with the result of the parse.
ClampBySign(p) ==
    IF sc.InSelectStmt /\ p.err = types.ErrOverflow
    THEN res'.val = IF IsNegativeString THEN MinInt64 ELSE Int64OfUint64(MaxUint64)
    ELSE /\ res'.err = p.err
         /\ res'.val = IF IsNegativeString THEN p.val ELSE Int64OfUint64(p.val)
         /\ sc' = p.sc

ParseFailed(p) == p.err # nil => ClampBySign(p)

\* C27: the endpoint String-to-Integer clamps to on overflow in a SELECT
\* depends only on the sign of the input string, not on the signedness of the
\* target: a leading '-' clamps to MinInt64, any other string to the bit
\* pattern of MaxUint64; a parse error that is no overflow, and any error
\* outside a SELECT, is returned unchanged with the unclamped parse result.
C27_ClampBySignOfInput ==
    [][StringToIntStep
       => ParseFailed(IF IsNegativeString THEN StrToInt(sc, Trimmed) ELSE StrToUint(sc, Trimmed))]_vars

\* The string one past MaxUint64 cast to a signed target in a SELECT: int64 -1.
C27_Witness ==
    /\ phase = "evaluated"
    /\ fn.sig = "builtinCastStringAsIntSig"
    /\ ~HasUnsignedFlag(tp.Flag)
    /\ ~Failed(row)
    /\ row.val = PositiveOverflowText
    /\ sc.InSelectStmt
    /\ res.val = -1

\* A parse error that is no overflow came back with the parsed prefix.
C27_ErrorUnchanged ==
    /\ phase = "evaluated"
    /\ fn.sig = "builtinCastStringAsIntSig"
    /\ ~Failed(row)
    /\ row.val = <<"1", "2", "a">>
    /\ res.err = types.ErrTruncated
    /\ res.val = 12

\* Integer-to-Duration has evaluated a non-null integer.
IntToDurationEvaluated ==
    /\ phase = "evaluated"
    /\ fn.sig = "builtinCastIntAsDurationSig"
    /\ ~Failed(row)

\* n is what NumberToDuration returned for the integer of the row.
NullOnFailure(n) ==
    /\ n.err # nil => res.isNull
    /\ n.err = types.ErrOverflow
          => IF sc.OverflowAsWarning
             THEN /\ res.err = nil
                  /\ sc.warnings # <<>>
                  /\ sc.warnings[Len(sc.warnings)] = types.ErrOverflow
             ELSE res.err = types.ErrOverflow
    /\ (n.err # nil /\ n.err # types.ErrOverflow) => res.err = n.err
    /\ ~res.isNull => (n.err = nil /\ res.err = nil /\ res.val = n.val)

\* C28: Integer-to-Duration returns isNull = true whenever the conversion of
\* the number fails, for every kind of failure: an overflow is passed to the
\* sink and, when the sink downgrades it, the outcome is SQL NULL with no
\* error rather than a clamped duration; a non-null duration is returned only
\* when the conversion reported no error.
C28_NullWhenConversionFails ==
    IntToDurationEvaluated => NullOnFailure(NumberToDuration(EvalInt(expr, row).val, tp.Decimal))

\* A number past TimeMaxValue under a downgrading policy: NULL, no error, and
\* the overflow in the sink.
C28_Witness ==
    /\ IntToDurationEvaluated
    /\ EvalInt(expr, row).val = TimeMaxValue + 1
    /\ sc.OverflowAsWarning
    /\ res.isNull
    /\ res.err = nil
    /\ sc.warnings = <<types.ErrOverflow>>

\* A number with 60 minutes: NULL with the error of the conversion.
C28_InvalidIsNull ==
    /\ IntToDurationEvaluated
    /\ EvalInt(expr, row).val = 6070
    /\ res.isNull
    /\ res.err = types.ErrInvalidTimeFormat

====
